---- MODULE Spec2Model ----
(***************************************************************************)
(* vite-plugin-ferry: generation of the @ferry/enums and @ferry/resources  *)
(* packages from PHP source artifacts, and the dev-server watchers that    *)
(* re-run the generators.                                                  *)
(*                                                                         *)
(* File names are sequences of their dot-separated segments, so            *)
(* Role.d.ts.map is <<"Role","d","ts","map">>.  A PHP artifact is the      *)
(* syntax tree php-parser produces for it.  Emitted text is the node tree  *)
(* handed to the TypeScript printer: the printer is deterministic, so two  *)
(* texts are byte-identical exactly when their trees are equal.            *)
(***************************************************************************)
EXTENDS Integers, Sequences, FiniteSets, TLC

VARIABLES
  enumsDir,      \* app/Enums: [exists, files: file stem -> artifact]
  resourcesDir,  \* app/Http/Resources: [exists, files: file stem -> artifact]
  out,           \* out[p]: output directory of package p, file name -> content
  job,           \* callback running on the JavaScript thread, or "idle"
  gen,           \* generator the callback is executing, or "none"
  pc,            \* position inside the running generator
  unlinkQ,       \* cleanOutputDir: files of its listing still to unlink
  writeQ,        \* writeFileEnsureDir calls the generator still has to make
  pending,       \* change events queued for the event loop, oldest first
  inflight,      \* inflight[p]: generator calls of p entered and not yet left
  before,        \* before[p]: out[p] when the running pass of p started
  passSrc,       \* source directories as the running pass read them
  fresh,         \* fresh[p]: out[p] is a completed pass over the present sources
  startedFresh,  \* the running pass started from a fresh output directory
  faults,        \* write failures injected so far
  arrivals,      \* file events raised so far
  arrived,       \* arrived[p]: change events raised under p's watched directories;
                 \* arrived.unheard: add and unlink events raised
  regens,        \* regens[p]: generator calls the watcher of p has made
  burst,         \* burst[p]: reruns started for events of one in-flight window
  emitted,       \* emitted[p]: 'change' notifications emitted for p's barrel
  input,         \* emitter harness: the enum artifact under translation
  enumDef,       \* emitter harness: parseEnumContent(input)
  dtsText,       \* emitter harness: generateSingleEnumTypeScript(enumDef)
  jsText,        \* emitter harness: generateSingleEnumRuntime(enumDef)
  stage,         \* emitter harness: position
  probe,         \* inference harness: the field (key, value expression, context)
  inferred,      \* inference harness: inferTypeFromAstNode(probe)
  artifact,      \* resource harness: the resource artifact and the enums referenced so far
  parsed,        \* resource harness: parseResourceFieldsAst(artifact)
  declaration,   \* resource harness: generateSingleResourceTypeScript(parsed)
  positions,     \* resource harness: generateResourceSourceMap(parsed)
  step,          \* resource harness: position
  mappings,      \* source map harness: the mapping tuples handed to generateSourceMap
  encoded        \* source map harness: the `mappings` string of generateSourceMap

genVars == <<enumsDir, resourcesDir, out, job, gen, pc, unlinkQ, writeQ, inflight,
             before, passSrc, fresh, startedFresh, faults>>

watchVars == <<pending, arrivals, arrived, regens, burst, emitted>>

emitVars == <<input, enumDef, dtsText, jsText, stage>>

inferVars == <<probe, inferred>>

resVars == <<artifact, parsed, declaration, positions, step>>

mapVars == <<mappings, encoded>>

vars == <<genVars, watchVars, emitVars, inferVars, resVars, mapVars>>

(***************************************************************************)
(* Bounds                                                                  *)
(***************************************************************************)
MaxEvents == 3    \* change events raised in one behaviour
MaxCases == 2     \* cases of an enum artifact of the emitter harness
MaxFaults == 1    \* writeFileSync failures in one behaviour
MaxFields == 2    \* entries of the toArray() literal of the resource harness
MaxMappings == 2  \* mapping tuples handed to generateSourceMap

Packages == {"enums", "resources"}

Null == [kind |-> "null"]

(***************************************************************************)
(* JavaScript values and conversions                                       *)
(***************************************************************************)
Digits == <<"0", "1", "2", "3">>

\* Number(text) of a decimal literal text
StrToNum(s) == CHOOSE n \in 0..(Len(Digits) - 1) : Digits[n + 1] = s

\* String(n)
NumToStr(n) == Digits[n + 1]

JsNumber(n) == [t |-> "number", n |-> n, s |-> ""]
JsString(s) == [t |-> "string", n |-> 0, s |-> s]

\* String(c.value)
ToJsString(v) == IF v.t = "number" THEN NumToStr(v.n) ELSE v.s

\* An optional string property: absent, or present with a text.
NoLabel == [set |-> FALSE, text |-> ""]
Label(s) == [set |-> TRUE, text |-> s]

IsNull(x) == x.kind = "null"

\* JavaScript truthiness of an optional string: undefined and '' are falsy.
Truthy(l) == l.set /\ l.text # ""

(***************************************************************************)
(* File names                                                              *)
(***************************************************************************)
DtsFile(n) == <<n, "d", "ts">>
MapFile(n) == <<n, "d", "ts", "map">>
JsFile(n) == <<n, "js">>
IndexDts == <<"index", "d", "ts">>
IndexJs == <<"index", "js">>
PackageJson == <<"package", "json">>

\* file.endsWith('.d.ts')
EndsWithDts(f) == Len(f) >= 3 /\ f[Len(f) - 1] = "d" /\ f[Len(f)] = "ts"

\* file.endsWith('.js')
EndsWithJs(f) == Len(f) >= 2 /\ f[Len(f)] = "js"

\* relative(cwd, join(dir, file)) of an artifact
RelPath(dir, stem) == <<dir, stem, "php">>

NoFile == <<>>

(***************************************************************************)
(* php-parser syntax trees                                                 *)
(***************************************************************************)
StringNode(s) == [kind |-> "string", value |-> s]
NumberNode(s) == [kind |-> "number", value |-> s]
NoNode == [kind |-> "none", value |-> ""]

\* getStringValue: the text of a string or number node, else null
HasStringValue(node) == node.kind \in {"string", "number"}
getStringValue(node) == node.value

(***************************************************************************)
(* parseEnumContent                                                        *)
(***************************************************************************)
\* value of one enumcase node
CaseValue(c) ==
  IF c.value.kind = "none" THEN JsString(c.name)
  ELSE IF c.value.kind = "number" THEN JsNumber(StrToNum(c.value.value))
  ELSE IF HasStringValue(c.value) THEN JsString(getStringValue(c.value))
  ELSE JsString(c.name)

\* indices of the match arms `self::key => <scalar>`
ArmsFor(ast, key) ==
  {j \in 1..Len(ast.arms) : ast.arms[j].cond = key /\ HasStringValue(ast.arms[j].body)}

\* the arms are walked in order, so the last matching arm sets the label
CaseLabel(ast, key) ==
  IF ast.method # "label" \/ ArmsFor(ast, key) = {} THEN NoLabel
  ELSE LET j == CHOOSE k \in ArmsFor(ast, key) : \A m \in ArmsFor(ast, key) : m <= k
       IN Label(getStringValue(ast.arms[j].body))

\* source positions the parser records for the generators' position maps
EnumLoc(ast, relPath) == [file |-> relPath, line |-> ast.line]
CaseLoc(c) == c.line
FieldLoc(item) == item.line

parseEnumContent(ast, relPath) ==
  IF ~ast.parses THEN Null
  ELSE IF ~ast.hasEnum THEN Null
  ELSE [kind |-> "enum",
        name |-> ast.name,
        backing |-> ast.valueType,
        cases |-> [i \in 1..Len(ast.cases) |->
                     [key |-> ast.cases[i].name,
                      value |-> CaseValue(ast.cases[i]),
                      label |-> CaseLabel(ast, ast.cases[i].name),
                      line |-> CaseLoc(ast.cases[i])]],
        loc |-> EnumLoc(ast, relPath)]

(***************************************************************************)
(* TypeScript nodes                                                        *)
(***************************************************************************)
createStringLiteral(s) == [lit |-> "string", text |-> s]
createNumericLiteral(n) == [lit |-> "numeric", text |-> NumToStr(n)]
NoLiteral == [lit |-> "none", text |-> ""]

\* createEnum: one member per case, numeric or string initializer
createEnum(name, cases) ==
  [form |-> "enum", name |-> name,
   members |-> [i \in 1..Len(cases) |->
                  [key |-> cases[i].key,
                   value |-> IF cases[i].value.t = "number"
                             THEN createNumericLiteral(cases[i].value.n)
                             ELSE createStringLiteral(cases[i].value.s),
                   label |-> NoLiteral]]]

createSourceMapComment(mapFile) == mapFile

(***************************************************************************)
(* Enum emitter                                                            *)
(***************************************************************************)
\* enumDef.cases.some((c) => c.label)
hasLabels(def) == \E i \in 1..Len(def.cases) : Truthy(def.cases[i].label)

\* c.label || String(c.value)
LabelOrValue(c) == IF Truthy(c.label) THEN c.label.text ELSE ToJsString(c.value)

\* { value: <literal>, label: <literal> } of every case
LabeledMembers(def) ==
  [i \in 1..Len(def.cases) |->
     [key |-> def.cases[i].key,
      value |-> createStringLiteral(ToJsString(def.cases[i].value)),
      label |-> createStringLiteral(LabelOrValue(def.cases[i]))]]

generateSingleEnumTypeScript(def, phpFile) ==
  [see |-> phpFile,
   node |-> IF hasLabels(def)
            THEN [form |-> "declare const", name |-> def.name,
                  members |-> LabeledMembers(def)]
            ELSE createEnum(def.name, def.cases),
   mapComment |-> IF phpFile # NoFile
                  THEN createSourceMapComment(MapFile(def.name)) ELSE NoFile]

generateSingleEnumRuntime(def) ==
  [form |-> "const", name |-> def.name,
   shape |-> IF hasLabels(def) THEN "object" ELSE "scalar",
   members |-> IF hasLabels(def) THEN LabeledMembers(def)
               ELSE [i \in 1..Len(def.cases) |->
                       [key |-> def.cases[i].key,
                        value |-> IF def.cases[i].value.t = "number"
                                  THEN createNumericLiteral(def.cases[i].value.n)
                                  ELSE createStringLiteral(ToJsString(def.cases[i].value)),
                        label |-> NoLiteral]]]

\* line of the declaration text on which case i starts
EnumCaseLine(def, i) == 3 + (i - 1) * (IF hasLabels(def) THEN 4 ELSE 1)

generateEnumSourceMap(def, generatedFile, phpFile) ==
  [file |-> generatedFile,
   sources |-> phpFile,
   mappings |-> <<[generatedLine |-> 2, generatedColumn |-> 0, sourceLine |-> def.loc.line]>>
                \o [i \in 1..Len(def.cases) |->
                      [generatedLine |-> EnumCaseLine(def, i), generatedColumn |-> 4,
                       sourceLine |-> def.cases[i].line]]]

(***************************************************************************)
(* Source artifacts of the model                                           *)
(***************************************************************************)
\* enum Role: string { case ADMIN = 'admin'; }
RoleAst ==
  [parses |-> TRUE, hasEnum |-> TRUE, name |-> "Role", valueType |-> "string", line |-> 1,
   cases |-> <<[name |-> "ADMIN", value |-> StringNode("admin"), line |-> 2]>>,
   method |-> "", arms |-> <<>>]

\* enum Status: int { case LOW = 1; label(): match { self::LOW => 'Low' } }
StatusAst ==
  [parses |-> TRUE, hasEnum |-> TRUE, name |-> "Status", valueType |-> "int", line |-> 1,
   cases |-> <<[name |-> "LOW", value |-> NumberNode("1"), line |-> 2]>>,
   method |-> "label", arms |-> <<[cond |-> "LOW", body |-> StringNode("Low")]>>]

\* text php-parser rejects
BrokenAst ==
  [parses |-> FALSE, hasEnum |-> FALSE, name |-> "", valueType |-> "", line |-> 0,
   cases |-> <<>>, method |-> "", arms |-> <<>>]

EnumTexts == {RoleAst, StatusAst, BrokenAst}

\* file stems in the order readdirSync lists them
EnumStems == <<"Role", "Status">>
ResourceStems == <<"PostResource", "UserResource">>

Range(q) == {q[i] : i \in 1..Len(q)}

\* getPhpFiles(dir): the stems of the directory, in listing order
getPhpFiles(dir, stems) ==
  IF ~dir.exists THEN <<>>
  ELSE SelectSeq(stems, LAMBDA st : st \in DOMAIN dir.files)

(***************************************************************************)
(* collectEnums / generateEnums                                            *)
(***************************************************************************)
NoEnums == [names |-> <<>>, defs |-> <<>>]

\* enums[def.name] = def: a new key is appended, an existing key keeps its place
PutEnum(enums, def) ==
  IF def.name \in Range(enums.names)
  THEN [names |-> enums.names,
        defs |-> [i \in 1..Len(enums.names) |->
                    IF enums.names[i] = def.name THEN def ELSE enums.defs[i]]]
  ELSE [names |-> Append(enums.names, def.name), defs |-> Append(enums.defs, def)]

RECURSIVE CollectFrom(_, _, _)
CollectFrom(dir, files, enums) ==
  IF files = <<>> THEN enums
  ELSE CHOOSE result \in
         {CollectFrom(dir, Tail(files), IF IsNull(def) THEN es ELSE PutEnum(es, def)) :
            def \in {parseEnumContent(dir.files[Head(files)],
                                      RelPath("app/Enums", Head(files)))},
            es \in {enums}} : TRUE

collectEnums(dir) ==
  IF ~dir.exists THEN NoEnums
  ELSE CollectFrom(dir, getPhpFiles(dir, EnumStems), NoEnums)

PackageName(p) == IF p = "enums" THEN "@ferry/enums" ELSE "@ferry/resources"

\* barrel index.d.ts / index.js and the manifest, written last
BarrelWrites(p, names) ==
  <<[file |-> IndexDts, content |-> [barrel |-> "index.d.ts", package |-> p, names |-> names]],
    [file |-> IndexJs, content |-> [barrel |-> "index.js", package |-> p, names |-> names]],
    [file |-> PackageJson,
     content |-> [name |-> PackageName(p), version |-> "0.0.0",
                  main |-> IndexJs, types |-> IndexDts]]>>

\* the files generateEnums writes for one enum, in order
EnumFileWrites(def) ==
  LET phpFile == def.loc.file
  IN <<[file |-> DtsFile(def.name), content |-> generateSingleEnumTypeScript(def, phpFile)]>>
     \o (IF phpFile # NoFile
         THEN <<[file |-> MapFile(def.name),
                 content |-> generateEnumSourceMap(def, DtsFile(def.name), phpFile)]>>
         ELSE <<>>)
     \o <<[file |-> JsFile(def.name), content |-> generateSingleEnumRuntime(def)]>>

RECURSIVE Flatten(_)
Flatten(qq) == IF qq = <<>> THEN <<>> ELSE Head(qq) \o Flatten(Tail(qq))

\* every writeFileEnsureDir call of generateEnums, in order
EnumWrites(dir) ==
  CHOOSE writes \in
    {Flatten([i \in 1..Len(enums.names) |-> EnumFileWrites(enums.defs[i])])
     \o BarrelWrites("enums", enums.names) : enums \in {collectEnums(dir)}} : TRUE

(***************************************************************************)
(* Resource artifacts and type inference                                   *)
(***************************************************************************)
NoExpr == [kind |-> "other", callee |-> "", prop |-> "", rel |-> "",
           resource |-> "", method |-> "", whenLoadedArg |-> FALSE, items |-> <<>>]

\* $this->resource->prop
PropExpr(prop) == [NoExpr EXCEPT !.kind = "propertylookup", !.prop = prop]

\* $this->whenLoaded('rel')
WhenLoadedExpr(rel) == [NoExpr EXCEPT !.kind = "call", !.callee = "whenLoaded", !.rel = rel]

\* R::method($this->whenLoaded(..)) when wl, R::method($this->prop) otherwise
StaticCallExpr(r, m, wl) ==
  [NoExpr EXCEPT !.kind = "call", !.callee = "static", !.resource = r, !.method = m,
                 !.whenLoadedArg = wl]

\* new R(..)
NewExpr(r, wl) == [NoExpr EXCEPT !.kind = "new", !.resource = r, !.whenLoadedArg = wl]

\* a nested array literal [ 'k' => expr, ... ]
ArrayExpr(items) == [NoExpr EXCEPT !.kind = "array", !.items = items]

\* a type text: `name` or `name[]`
TsType(name, array) == [name |-> name, array |-> array, members |-> <<>>]

\* the inline object type `{ k?: type; ... }` built from nested fields
ShapeType(fields) ==
  [name |-> "{}", array |-> FALSE,
   members |-> [i \in 1..Len(fields) |->
                  [key |-> fields[i].key, optional |-> fields[i].optional,
                   type |-> fields[i].type]]]

\* mapPhpTypeToTs
mapPhpTypeToTs(cast) ==
  IF cast \in {"int", "integer", "real", "float", "double", "decimal"} THEN TsType("number", FALSE)
  ELSE IF cast = "string" THEN TsType("string", FALSE)
  ELSE IF cast \in {"bool", "boolean"} THEN TsType("boolean", FALSE)
  ELSE IF cast \in {"array", "json"} THEN TsType("any", TRUE)
  ELSE IF cast \in {"datetime", "date", "immutable_datetime", "immutable_date"}
       THEN TsType("string", FALSE)
  ELSE TsType("any", FALSE)

\* app/Models: the cast table parseModelCasts reads from each model artifact
ModelsDir ==
  [exists |-> TRUE,
   files |-> [m \in {"User"} |->
                [casts |-> [p \in {"status", "role", "age", "id", "user_id", "is_admin",
                                   "has_parent_id", "created_at", "price", "note"} |->
                              IF p = "status" THEN "Status"
                              ELSE IF p = "role" THEN "Role"
                              ELSE IF p = "price" THEN "decimal:2"
                              ELSE IF p = "note" THEN "" ELSE "integer"]]]]

\* lowerKey.startsWith('is_') || lowerKey.startsWith('has_') || /^(is|has)[A-Z]/.test(key)
BooleanNames == {"is_admin", "has_posts", "isAdmin", "hasPosts", "IS_ADMIN", "has_parent_id"}
IsBooleanNameCaseSensitive(k) ==
  k \in {"is_admin", "has_posts", "isAdmin", "hasPosts", "has_parent_id"}
IsBooleanName(k) == k \in BooleanNames

\* prop === 'id' || prop.endsWith('_id') || lower === 'uuid' || prop.endsWith('Id')
IdentifierNames == {"id", "user_id", "uuid", "userId", "has_parent_id"}
IsIdentifierName(k) == k \in IdentifierNames

\* prop.endsWith('_at') || prop.endsWith('At')
TimestampNames == {"created_at", "updated_at", "updatedAt"}
IsTimestampName(k) == k \in TimestampNames

\* trim.startsWith('{') || trim.includes(':') || /array\s*\{/.test(trim)
IsShapeCast(cast) == cast \in {"decimal:2", "{ a: string }", "array { a: string }"}

\* resourceClass.replace(/Resource$/, '')
ModelOf == [c \in {"UserResource", "PostResource"} |->
              IF c = "UserResource" THEN "User" ELSE "Post"]

\* `${relationName[0].toUpperCase()}${relationName.slice(1)}Resource`
CandidateOf == [r \in {"posts", "user", "status"} |->
                  IF r = "user" THEN "UserResource"
                  ELSE IF r = "status" THEN "StatusResource" ELSE "PostsResource"]

\* existsSync(join(dir, `${stem}.php`))
FileExists(dir, stem) == dir.exists /\ stem \in DOMAIN dir.files

\* resourceExists: a name is trusted when no resources directory is supplied
resourceExistsTrusting(resource, ctx) == TRUE
resourceExists(resource, ctx) == ~ctx.resSupplied \/ FileExists(ctx.resDir, resource)

\* mapCastToType: [type, collected]
mapCastToTypeByTable(cast, enumDir, collected) ==
  [type |-> mapPhpTypeToTs(cast), collected |-> collected]
mapCastToType(cast, enumDir, collected) ==
  LET def == IF FileExists(enumDir, cast)
             THEN parseEnumContent(enumDir.files[cast], NoFile) ELSE Null
  IN IF IsNull(def)
     THEN [type |-> mapPhpTypeToTs(cast), collected |-> collected]
     ELSE [type |-> TsType(def.name, FALSE), collected |-> PutEnum(collected, def)]

Info(type, optional, collected) ==
  [threw |-> FALSE, type |-> type, optional |-> optional, collected |-> collected]

\* relationName[0] of an empty string is undefined: toUpperCase raises a TypeError
Threw(collected) ==
  [threw |-> TRUE, type |-> TsType("any", FALSE), optional |-> FALSE, collected |-> collected]

\* containsWhenLoaded: the node is a whenLoaded call, or one of its children
\* (a call argument, an entry of a nested literal) contains one
RECURSIVE containsWhenLoaded(_)
containsWhenLoaded(node) ==
  \/ node.kind = "call" /\ node.callee = "whenLoaded"
  \/ node.kind \in {"call", "new"} /\ node.whenLoadedArg
  \/ \E i \in 1..Len(node.items) : containsWhenLoaded(node.items[i].value)

\* docShape && docShape[key]: the key has an entry and its type text is not empty
HasDocTypeAfterBoolean(docShape, key) ==
  key \in DOMAIN docShape /\ docShape[key].name # "" /\ ~IsBooleanName(key)
HasDocType(docShape, key) == key \in DOMAIN docShape /\ docShape[key].name # ""

\* method === 'collection' || method === 'make'
ReturnsListCollectionOnly(method) == method = "collection"
ReturnsList(method) == method \in {"collection", "make"}

\* result[key] = ...: an existing key keeps its place and takes the new value;
\* a new key that is an array index ("2", "10") is placed among the index
\* keys in ascending numeric order, before every other key; any other new
\* key is appended (the property order of a JavaScript object)
IndexKeys == <<"2", "10">>
IsIndexKey(k) == k \in Range(IndexKeys)
IndexOf(k) == CHOOSE n \in 1..Len(IndexKeys) : IndexKeys[n] = k
InsertAt(q, n, x) == SubSeq(q, 1, n) \o <<x>> \o SubSeq(q, n + 1, Len(q))
PutFieldAppending(fields, f) ==
  IF \E i \in 1..Len(fields) : fields[i].key = f.key
  THEN [i \in 1..Len(fields) |-> IF fields[i].key = f.key THEN f ELSE fields[i]]
  ELSE Append(fields, f)
PutField(fields, f) ==
  IF \E i \in 1..Len(fields) : fields[i].key = f.key
  THEN [i \in 1..Len(fields) |-> IF fields[i].key = f.key THEN f ELSE fields[i]]
  ELSE IF IsIndexKey(f.key)
       THEN InsertAt(fields,
                     Cardinality({i \in 1..Len(fields) :
                                    /\ IsIndexKey(fields[i].key)
                                    /\ IndexOf(fields[i].key) < IndexOf(f.key)}),
                     f)
  ELSE Append(fields, f)

\* casts[prop] of the model of the resource class; "" (falsy, like a missing
\* entry) when the model file or the entry does not exist
CastOf(prop, ctx) ==
  IF /\ ctx.resourceClass \in DOMAIN ModelOf
     /\ FileExists(ModelsDir, ModelOf[ctx.resourceClass])
     /\ prop \in DOMAIN ModelsDir.files[ModelOf[ctx.resourceClass]].casts
  THEN ModelsDir.files[ModelOf[ctx.resourceClass]].casts[prop]
  ELSE ""

\* the type of a cast entry: a shape text verbatim, any other cast by mapCastToType
CastType(cast, ctx, collected) ==
  IF IsShapeCast(cast) THEN Info(TsType(cast, FALSE), FALSE, collected)
  ELSE LET m == mapCastToType(cast, ctx.enumDir, collected)
       IN Info(m.type, FALSE, m.collected)

\* inferTypeFromAstNode, `$this->resource->prop`: boolean name, identifier,
\* model cast, timestamp, string
inferPropertyCastFirst(prop, ctx, collected) ==
  IF CastOf(prop, ctx) # "" THEN CastType(CastOf(prop, ctx), ctx, collected)
  ELSE IF IsBooleanName(prop) THEN Info(TsType("boolean", FALSE), FALSE, collected)
  ELSE Info(TsType("string", FALSE), FALSE, collected)
inferProperty(prop, ctx, collected) ==
  IF IsBooleanName(prop) THEN Info(TsType("boolean", FALSE), FALSE, collected)
  ELSE IF IsIdentifierName(prop) THEN Info(TsType("string", FALSE), FALSE, collected)
  ELSE IF CastOf(prop, ctx) # "" THEN CastType(CastOf(prop, ctx), ctx, collected)
  ELSE IF IsTimestampName(prop) THEN Info(TsType("string", FALSE), FALSE, collected)
  ELSE Info(TsType("string", FALSE), FALSE, collected)

RECURSIVE inferTypeFromAstNode(_, _, _, _)
RECURSIVE parseArrayEntries(_, _, _, _)

\* inferTypeFromAstNode; ctx = [resDir, resSupplied, enumDir, resourceClass, docShape]
inferTypeFromAstNode(node, key, ctx, collected) ==
  LET optional == containsWhenLoaded(node)
      isStatic == node.kind = "call" /\ node.callee = "static"
  IN IF HasDocType(ctx.docShape, key) THEN Info(ctx.docShape[key], optional, collected)
     ELSE IF IsBooleanName(key) THEN Info(TsType("boolean", FALSE), optional, collected)
     ELSE IF isStatic /\ node.resource = "Collection"
          THEN Info(TsType("any", TRUE), optional, collected)
     ELSE IF isStatic /\ ReturnsList(node.method)
          THEN IF resourceExists(node.resource, ctx)
               THEN Info(TsType(node.resource, TRUE), optional, collected)
               ELSE Info(TsType("any", TRUE), optional, collected)
     ELSE IF node.kind = "call" /\ node.callee = "whenLoaded"
          THEN IF ctx.resSupplied /\ node.rel = "" THEN Threw(collected)
               ELSE IF ctx.resSupplied /\ FileExists(ctx.resDir, CandidateOf[node.rel])
                    THEN Info(TsType(CandidateOf[node.rel], FALSE), TRUE, collected)
               ELSE Info(TsType("Record<string, any>", FALSE), TRUE, collected)
     ELSE IF node.kind = "new"
          THEN IF resourceExists(node.resource, ctx)
               THEN Info(TsType(node.resource, FALSE), optional, collected)
               ELSE Info(TsType("any", FALSE), optional, collected)
     ELSE IF node.kind = "propertylookup"
          THEN inferProperty(node.prop, ctx, collected)
     ELSE IF node.kind = "array"
          THEN CHOOSE result \in
                 {IF nested.threw THEN Threw(nested.collected)
                  ELSE IF Len(nested.fields) > 0
                       THEN Info(ShapeType(nested.fields), optional, nested.collected)
                  ELSE Info(TsType("any", TRUE), optional, nested.collected) :
                    nested \in {parseArrayEntries(node.items, ctx, <<>>, collected)}} : TRUE
     ELSE Info(TsType("any", FALSE), optional, collected)

\* parseArrayEntries: [threw, fields, collected]; the inferred type of the
\* entry is computed once and the loop continues with the values
parseArrayEntries(items, ctx, fields, collected) ==
  IF items = <<>> THEN [threw |-> FALSE, fields |-> fields, collected |-> collected]
  ELSE LET it == Head(items)
       IN CHOOSE result \in
            {IF info.threw
             THEN [threw |-> TRUE, fields |-> fs, collected |-> info.collected]
             ELSE parseArrayEntries(Tail(items), ctx,
                    PutField(fs, [key |-> it.key, type |-> info.type,
                                  optional |-> info.optional, line |-> FieldLoc(it)]),
                    info.collected) :
               info \in {inferTypeFromAstNode(it.value, it.key, ctx, collected)},
               fs \in {fields}} : TRUE

\* parseResourceFieldsAst: status "null" (fallback), "threw" or "ok"
parseResourceFieldsAstAnyReturn(ast, ctx, collected) ==
  IF ~ast.parses \/ ~ast.hasClass \/ ~ast.hasToArray
  THEN [status |-> "null", fields |-> <<>>, collected |-> collected]
  ELSE [status |-> "ok", fields |-> <<>>, collected |-> collected]
parseResourceFieldsAst(ast, ctx, collected) ==
  IF ~ast.parses \/ ~ast.hasClass \/ ~ast.hasToArray \/ ~ast.returnsArray
  THEN [status |-> "null", fields |-> <<>>, collected |-> collected]
  ELSE LET r == parseArrayEntries(ast.items, [ctx EXCEPT !.resourceClass = ast.className],
                                  <<>>, collected)
       IN [status |-> IF r.threw THEN "threw" ELSE "ok",
           fields |-> r.fields, collected |-> r.collected]

NoDocShape == [k \in {} |-> TsType("any", FALSE)]

\* class UserResource { toArray() { return [id, status, posts]; } }
ClosedAst ==
  [parses |-> TRUE, hasClass |-> TRUE, className |-> "UserResource", hasToArray |-> TRUE,
   returnsArray |-> TRUE, docShape |-> NoDocShape,
   items |-> <<[key |-> "id", value |-> PropExpr("id"), line |-> 5],
               [key |-> "status", value |-> PropExpr("status"), line |-> 6],
               [key |-> "posts",
                value |-> StaticCallExpr("PostResource", "collection", TRUE), line |-> 7]>>]

\* a class without a toArray method
FallbackAst ==
  [parses |-> TRUE, hasClass |-> TRUE, className |-> "PostResource", hasToArray |-> FALSE,
   returnsArray |-> FALSE, docShape |-> NoDocShape, items |-> <<>>]

\* toArray() { return ['name' => $this->resource->name, 'owner' => $this->whenLoaded('')]; }
EmptyRelationAst ==
  [parses |-> TRUE, hasClass |-> TRUE, className |-> "PostResource", hasToArray |-> TRUE,
   returnsArray |-> TRUE, docShape |-> NoDocShape,
   items |-> <<[key |-> "name", value |-> PropExpr("name"), line |-> 5],
               [key |-> "owner", value |-> WhenLoadedExpr(""), line |-> 6]>>]

ResourceTexts == {ClosedAst, FallbackAst, EmptyRelationAst}

(***************************************************************************)
(* Resource emitter / generateResources                                    *)
(***************************************************************************)
\* the words a name of the model is made of: "StatusResource" contains "Status"
Words(name) == IF name = "StatusResource" THEN <<"Status", "Resource">> ELSE <<name>>

\* type.includes(enumName): the enum name occurs somewhere in the type text,
\* as the type itself, as a part of another name, or inside an inline object
RECURSIVE Includes(_, _)
Includes(type, enumName) ==
  \/ enumName \in Range(Words(type.name))
  \/ \E i \in 1..Len(type.members) :
        \/ enumName \in Range(Words(type.members[i].key))
        \/ Includes(type.members[i].type, enumName)

\* enums of the referenced set that some field's type text contains
UsedEnums(fields, referenced) ==
  {e \in Range(referenced) : \E i \in 1..Len(fields) : Includes(fields[i].type, e)}

\* Array.from(usedEnums).sort() over the enum names of the model
EnumNameOrder == <<"Role", "Status">>
SortNames(S) == SelectSeq(EnumNameOrder, LAMBDA n : n \in S)

generateSingleResourceTypeScript(className, fields, isFallback, referenced, phpFile) ==
  [see |-> phpFile,
   imports |-> SortNames(UsedEnums(fields, referenced)),
   node |-> IF isFallback
            THEN [form |-> "type alias", name |-> className,
                  type |-> TsType("Record<string, any>", FALSE), members |-> <<>>]
            ELSE [form |-> "type literal", name |-> className,
                  type |-> TsType("", FALSE),
                  members |-> [i \in 1..Len(fields) |->
                                 [name |-> fields[i].key, type |-> fields[i].type,
                                  optional |-> fields[i].optional]]],
   mapComment |-> IF phpFile # NoFile
                  THEN createSourceMapComment(MapFile(className)) ELSE NoFile]

\* printNode: the lines the printer gives a type; an inline object type with
\* members is printed as `{`, one member per entry, `}`
RECURSIVE PrintedLines(_)
RECURSIVE MembersLines(_)
PrintedLines(type) == IF type.members = <<>> THEN 1 ELSE 2 + MembersLines(type.members)
MembersLines(members) ==
  IF members = <<>> THEN 0
  ELSE PrintedLines(Head(members).type) + MembersLines(Tail(members))

\* lines.join('\n') of generateSingleResourceTypeScript: the line of
\* `export type X = {`, after the @see comment and the import with its blank line
AliasLine(dts) ==
  (IF dts.see # NoFile THEN 1 ELSE 0) + (IF dts.imports # <<>> THEN 2 ELSE 0) + 1

\* the line on which member i of the type literal begins
MemberLine(dts, i) == AliasLine(dts) + 1 + MembersLines(SubSeq(dts.node.members, 1, i - 1))

generateResourceSourceMap(className, fields, generatedFile, phpFile, hasEnumImports) ==
  LET currentLine == IF hasEnumImports THEN 4 ELSE 2
  IN [file |-> generatedFile,
      sources |-> phpFile,
      mappings |-> [i \in 1..Len(fields) |->
                      [generatedLine |-> currentLine + 1 + (i - 1), generatedColumn |-> 4,
                       sourceLine |-> fields[i].line]]]

NoResources == [names |-> <<>>, fields |-> <<>>, fallback |-> <<>>, collected |-> NoEnums]

\* the per-file loop of generateResources: a file whose parse raises is skipped
RECURSIVE CollectResources(_, _, _, _)
CollectResources(resDir, enumDir, files, acc) ==
  IF files = <<>> THEN acc
  ELSE LET className == Head(files)
       IN CHOOSE result \in
            {CollectResources(resDir, enumDir, Tail(files),
               IF r.status = "threw" THEN [a EXCEPT !.collected = r.collected]
               ELSE [names |-> Append(a.names, className),
                     fields |-> Append(a.fields, r.fields),
                     fallback |-> Append(a.fallback, r.status = "null"),
                     collected |-> r.collected]) :
               <<a, r>> \in
                 {<<b, parseResourceFieldsAst(
                          resDir.files[className],
                          [resDir |-> resDir, resSupplied |-> TRUE, enumDir |-> enumDir,
                           resourceClass |-> "",
                           docShape |-> resDir.files[className].docShape],
                          b.collected)>> : b \in {acc}}} : TRUE

\* the files generateResources writes for resource i, in order
ResourceFileWrites(res, i) ==
  LET className == res.names[i]
      phpFile == RelPath("app/Http/Resources", className)
      referenced == res.collected.names
  IN <<[file |-> DtsFile(className),
        content |-> generateSingleResourceTypeScript(className, res.fields[i],
                      res.fallback[i], referenced, phpFile)]>>
     \o (IF ~res.fallback[i]
         THEN <<[file |-> MapFile(className),
                 content |-> generateResourceSourceMap(className, res.fields[i],
                               DtsFile(className), phpFile,
                               UsedEnums(res.fields[i], referenced) # {})]>>
         ELSE <<>>)
     \o <<[file |-> JsFile(className), content |-> [text |-> "export {};"]]>>

\* every writeFileEnsureDir call of generateResources, in order; none at all
\* when the resources directory does not exist (early return)
ResourceWrites(resDir, enumDir) ==
  IF ~resDir.exists THEN <<>>
  ELSE CHOOSE writes \in
         {Flatten([i \in 1..Len(res.names) |-> ResourceFileWrites(res, i)])
          \o BarrelWrites("resources", res.names) :
            res \in {CollectResources(resDir, enumDir,
                                      getPhpFiles(resDir, ResourceStems), NoResources)}} : TRUE

(***************************************************************************)
(* Directories                                                             *)
(***************************************************************************)
NoFiles == [st \in {} |-> BrokenAst]
MissingDir == [exists |-> FALSE, files |-> NoFiles]
EmptyDir == [exists |-> TRUE, files |-> NoFiles]

EmptyOut == [f \in {} |-> Null]

\* texts a file of the model may hold
EnumTextsOf(stem) == IF stem = "Role" THEN {RoleAst} ELSE {StatusAst, BrokenAst}
ResourceTextsOf(stem) ==
  IF stem = "UserResource" THEN {ClosedAst} ELSE {FallbackAst, EmptyRelationAst}

WithFile(dir, stem, text) ==
  [dir EXCEPT !.files = [st \in DOMAIN dir.files \cup {stem} |->
                           IF st = stem THEN text ELSE dir.files[st]]]

WithoutFile(dir, stem) ==
  [dir EXCEPT !.files = [st \in DOMAIN dir.files \ {stem} |-> dir.files[st]]]

\* every file name an output directory of the model can hold, in listing order
OutNames == <<"PostResource", "Role", "Status", "UserResource", "index">>
AllOutFiles ==
  Flatten([i \in 1..Len(OutNames) |->
             <<DtsFile(OutNames[i]), MapFile(OutNames[i]), JsFile(OutNames[i])>>])
  \o <<PackageJson>>

\* readdirSync(outputDir)
readdirSync(dirOut) == SelectSeq(AllOutFiles, LAMBDA f : f \in DOMAIN dirOut)

\* the test of cleanOutputDir: file.endsWith('.d.ts') || file.endsWith('.js')
CleanMatchesDtsOnly(f) == EndsWithDts(f)
CleanMatches(f) == EndsWithDts(f) \/ EndsWithJs(f)

\* unlinkSync(file)
Unlinked(dirOut, file) == [f \in DOMAIN dirOut \ {file} |-> dirOut[f]]

\* writeFileSync(file, content) replaces the content of an existing file
WrittenAppending(dirOut, w) ==
  [f \in DOMAIN dirOut \cup {w.file} |->
     IF f # w.file THEN dirOut[f]
     ELSE IF f \in DOMAIN dirOut THEN [appendedTo |-> dirOut[f], text |-> w.content]
     ELSE w.content]
Written(dirOut, w) ==
  [f \in DOMAIN dirOut \cup {w.file} |-> IF f = w.file THEN w.content ELSE dirOut[f]]

\* source directories a pass of package p reads
SourcesOf(p) ==
  [enums |-> enumsDir, resources |-> IF p = "resources" THEN resourcesDir ELSE MissingDir]

NoSources == [enums |-> MissingDir, resources |-> MissingDir]

(***************************************************************************)
(* One pass of generateEnums / generateResources                           *)
(***************************************************************************)
\* entry of generateEnums / generateResources: cleanOutputDir lists the directory;
\* infl is the in-flight count the call is entered with
Enter(p, infl) ==
  /\ gen' = p
  /\ pc' = "clean"
  /\ unlinkQ' = SelectSeq(readdirSync(out[p]), CleanMatches)
  /\ writeQ' = <<>>
  /\ before' = [q \in Packages |-> IF q = p THEN out[p] ELSE EmptyOut]
  /\ inflight' = [infl EXCEPT ![p] = @ + 1]
  /\ startedFresh' = fresh[p]
  /\ passSrc' = NoSources

\* cleanOutputDir: one unlinkSync
Unlink ==
  /\ pc = "clean" /\ unlinkQ # <<>>
  /\ out' = [out EXCEPT ![gen] = Unlinked(@, Head(unlinkQ))]
  /\ unlinkQ' = Tail(unlinkQ)
  /\ UNCHANGED <<enumsDir, resourcesDir, job, gen, pc, writeQ, inflight, before, passSrc,
                 fresh, startedFresh, faults, watchVars, emitVars, inferVars, resVars, mapVars>>

\* the generator reads its source directories and prepares every file text
Collect ==
  /\ pc = "clean" /\ unlinkQ = <<>>
  /\ \E writes \in {IF gen = "enums" THEN EnumWrites(enumsDir)
                      ELSE ResourceWrites(resourcesDir, enumsDir)} :
       /\ writeQ' = writes
       /\ pc' = IF writes = <<>> THEN "done" ELSE "write"
  /\ passSrc' = SourcesOf(gen)
  /\ UNCHANGED <<enumsDir, resourcesDir, out, job, gen, unlinkQ, inflight, before,
                 fresh, startedFresh, faults, watchVars, emitVars, inferVars, resVars, mapVars>>

\* writeFileEnsureDir: one writeFileSync that succeeds
Write ==
  /\ pc = "write"
  /\ out' = [out EXCEPT ![gen] = Written(@, Head(writeQ))]
  /\ writeQ' = Tail(writeQ)
  /\ pc' = IF Tail(writeQ) = <<>> THEN "done" ELSE "write"
  /\ UNCHANGED <<enumsDir, resourcesDir, job, gen, unlinkQ, inflight, before, passSrc,
                 fresh, startedFresh, faults, watchVars, emitVars, inferVars, resVars, mapVars>>

\* writeFileEnsureDir: writeFileSync raises (disk full, read-only target)
WriteThrows ==
  /\ pc = "write"
  /\ faults < MaxFaults
  /\ faults' = faults + 1
  /\ pc' = "threw"
  /\ writeQ' = <<>>
  /\ UNCHANGED <<enumsDir, resourcesDir, out, job, gen, unlinkQ, inflight, before, passSrc,
                 fresh, startedFresh, watchVars, emitVars, inferVars, resVars, mapVars>>

\* the callback has returned to the event loop
Idle ==
  /\ job' = "idle" /\ gen' = "none" /\ pc' = "idle"
  /\ unlinkQ' = <<>> /\ writeQ' = <<>>
  /\ before' = [p \in Packages |-> EmptyOut]
  /\ passSrc' = NoSources
  /\ startedFresh' = FALSE

\* config() / buildStart(): generateAll inside try/catch
StartHook ==
  /\ job = "idle"
  /\ job' = "hook"
  /\ Enter("enums", inflight)
  /\ UNCHANGED <<enumsDir, resourcesDir, out, fresh, faults, watchVars, emitVars, inferVars, resVars, mapVars>>

\* the directory of the generated barrel of package p, under node_modules
OutputOf(p) == IF p = "enums" THEN "enums output" ELSE "resources output"

\* the package whose handler acts on a change under directory d:
\* filePath.startsWith(enumsDir) in the enum watcher,
\* filePath.startsWith(resourcesDir) || filePath.startsWith(modelsDir) in the other
HandlerOfOutputInside(d) ==
  IF d \in {"enums", "enums output"} THEN "enums"
  ELSE IF d \in {"resources", "models", "resources output"} THEN "resources"
  ELSE "none"
HandlerOf(d) ==
  IF d = "enums" THEN "enums"
  ELSE IF d \in {"resources", "models"} THEN "resources"
  ELSE "none"

\* the generator returns normally to its caller
Return ==
  /\ pc = "done"
  /\ fresh' = [fresh EXCEPT ![gen] = (passSrc = SourcesOf(gen))]
  /\ IF job = "hook" /\ gen = "enums"
     THEN \* generateAll goes on with generateResources
          /\ job' = job
          /\ Enter("resources", [inflight EXCEPT !["enums"] = @ - 1])
          /\ UNCHANGED emitted
          /\ UNCHANGED regens
     ELSE IF job = "hook"
     THEN /\ Idle
          /\ inflight' = [inflight EXCEPT ![gen] = @ - 1]
          /\ UNCHANGED <<emitted, regens>>
     ELSE \* server.watcher.emit('change', generated barrel): the emitter calls
          \* both 'change' listeners before the handler goes on
          /\ emitted' = [emitted EXCEPT ![gen] = @ + 1]
          /\ IF HandlerOf(OutputOf(gen)) = "none"
             THEN /\ Idle
                  /\ inflight' = [inflight EXCEPT ![gen] = @ - 1]
                  /\ UNCHANGED regens
             ELSE /\ job' = job
                  /\ Enter(HandlerOf(OutputOf(gen)), [inflight EXCEPT ![gen] = @ - 1])
                  /\ regens' = [regens EXCEPT ![HandlerOf(OutputOf(gen))] = @ + 1]
  /\ UNCHANGED <<enumsDir, resourcesDir, out, faults, pending, arrivals, arrived,
                 burst, emitVars, inferVars, resVars, mapVars>>

\* the exception leaves the generator and is caught by the callback's
\* try/catch: the statements after the generator call are skipped
CatchThenEmit ==
  /\ pc = "threw"
  /\ Idle
  /\ inflight' = [inflight EXCEPT ![gen] = @ - 1]
  /\ fresh' = [fresh EXCEPT ![gen] = FALSE]
  /\ emitted' = IF job = "hook" THEN emitted ELSE [emitted EXCEPT ![gen] = @ + 1]
  /\ UNCHANGED <<enumsDir, resourcesDir, out, faults, pending, arrivals, arrived, regens,
                 burst, emitVars, inferVars, resVars, mapVars>>
Catch ==
  /\ pc = "threw"
  /\ Idle
  /\ inflight' = [inflight EXCEPT ![gen] = @ - 1]
  /\ fresh' = [fresh EXCEPT ![gen] = FALSE]
  /\ UNCHANGED <<enumsDir, resourcesDir, out, faults, watchVars, emitVars, inferVars, resVars, mapVars>>

(***************************************************************************)
(* The developer edits the source directories                              *)
(***************************************************************************)
\* directories one edit away: mkdir, rm -r, save a file, delete a file;
\* texts[st] are the texts the file st may hold
EditsOf(dir, texts) ==
  IF ~dir.exists THEN {EmptyDir}
  ELSE {MissingDir}
       \cup UNION {{WithFile(dir, st, t) :
                      t \in {x \in texts[st] :
                               st \notin DOMAIN dir.files \/ dir.files[st] # x}} :
                   st \in DOMAIN texts}
       \cup {WithoutFile(dir, st) : st \in DOMAIN dir.files}

\* An edit commutes with the unlink and write steps of a running pass, which
\* touch the output directory only, so under the plugin hooks it is taken
\* between passes; the dev-server specification below lets files change
\* while a pass runs.
EditEnums ==
  /\ job = "idle"
  /\ \E d \in EditsOf(enumsDir, [st \in Range(EnumStems) |-> EnumTextsOf(st)]) :
       enumsDir' = d
  /\ fresh' = [p \in Packages |-> FALSE]
  /\ UNCHANGED <<resourcesDir, out, job, gen, pc, unlinkQ, writeQ, inflight, before,
                 passSrc, startedFresh, faults, watchVars, emitVars, inferVars, resVars, mapVars>>

EditResources ==
  /\ job = "idle"
  /\ \E d \in EditsOf(resourcesDir, [st \in Range(ResourceStems) |-> ResourceTextsOf(st)]) :
       resourcesDir' = d
  /\ fresh' = [fresh EXCEPT !["resources"] = FALSE]
  /\ UNCHANGED <<enumsDir, out, job, gen, pc, unlinkQ, writeQ, inflight, before,
                 passSrc, startedFresh, faults, watchVars, emitVars, inferVars, resVars, mapVars>>

(***************************************************************************)
(* Specification of the plugin hooks                                       *)
(***************************************************************************)
NotEmitting ==
  /\ input = BrokenAst /\ enumDef = Null
  /\ dtsText = Null /\ jsText = Null /\ stage = "off"

NotInferring ==
  /\ probe = Null /\ inferred = Null
  /\ artifact = Null /\ parsed = Null /\ declaration = Null /\ positions = Null
  /\ step = "off"

NotEncoding == mappings = <<>> /\ encoded = Null

NotWatching ==
  /\ pending = <<>> /\ arrivals = 0
  /\ arrived = [p \in Packages \cup {"unheard"} |-> 0]
  /\ regens = [p \in Packages |-> 0]
  /\ burst = [p \in Packages |-> [window |-> 0, reruns |-> 0]]
  /\ emitted = [p \in Packages |-> 0]

\* a project before its first build
Init ==
  /\ enumsDir = MissingDir /\ resourcesDir = MissingDir
  /\ out = [p \in Packages |-> EmptyOut]
  /\ job = "idle" /\ gen = "none" /\ pc = "idle"
  /\ unlinkQ = <<>> /\ writeQ = <<>>
  /\ inflight = [p \in Packages |-> 0]
  /\ before = [p \in Packages |-> EmptyOut]
  /\ passSrc = NoSources
  /\ fresh = [p \in Packages |-> FALSE]
  /\ startedFresh = FALSE
  /\ faults = 0
  /\ NotWatching
  /\ NotEncoding
  /\ NotEmitting
  /\ NotInferring

Next ==
  \/ EditEnums
  \/ EditResources
  \/ StartHook
  \/ Unlink
  \/ Collect
  \/ Write
  \/ WriteThrows
  \/ Return
  \/ Catch

Spec == Init /\ [][Next]_vars

(***************************************************************************)
(* Specification of the dev server: the watchers of configureServer        *)
(***************************************************************************)
RECURSIVE ApplyWrites(_, _)
ApplyWrites(dirOut, writes) ==
  IF writes = <<>> THEN dirOut
  ELSE CHOOSE result \in
         {ApplyWrites(Written(d, Head(ws)), Tail(ws)) : d \in {dirOut}, ws \in {writes}} : TRUE

ServedEnums == WithFile(WithFile(EmptyDir, "Role", RoleAst), "Status", StatusAst)
ServedResources ==
  WithFile(WithFile(EmptyDir, "UserResource", ClosedAst), "PostResource", FallbackAst)

\* the dev server has started: config() and buildStart() have generated both packages
InitWatch ==
  /\ enumsDir = ServedEnums /\ resourcesDir = ServedResources
  /\ out = [p \in Packages |->
              IF p = "enums" THEN ApplyWrites(EmptyOut, EnumWrites(ServedEnums))
              ELSE ApplyWrites(EmptyOut, ResourceWrites(ServedResources, ServedEnums))]
  /\ job = "idle" /\ gen = "none" /\ pc = "idle"
  /\ unlinkQ = <<>> /\ writeQ = <<>>
  /\ inflight = [p \in Packages |-> 0]
  /\ before = [p \in Packages |-> EmptyOut]
  /\ passSrc = NoSources
  /\ fresh = [p \in Packages |-> TRUE]
  /\ startedFresh = FALSE
  /\ faults = 0
  /\ NotWatching
  /\ NotEncoding
  /\ NotEmitting
  /\ NotInferring

\* chokidar raises 'change' for a path under directory d
Raise(d) ==
  /\ arrivals < MaxEvents
  /\ arrivals' = arrivals + 1
  /\ pending' = Append(pending,
       [dir |-> d,
        window |-> IF HandlerOf(d) # "none" /\ inflight[HandlerOf(d)] > 0
                   THEN regens[HandlerOf(d)] ELSE 0])
  /\ arrived' = [p \in DOMAIN arrived |->
                   IF p = HandlerOf(d) THEN arrived[p] + 1 ELSE arrived[p]]

\* the developer saves an existing enum file
ChangeEnum ==
  /\ \E st \in DOMAIN enumsDir.files : \E t \in EnumTextsOf(st) :
       enumsDir' = WithFile(enumsDir, st, t)
  /\ Raise("enums")
  /\ fresh' = [p \in Packages |-> FALSE]
  /\ startedFresh' = (startedFresh /\ pc # "clean")
  /\ UNCHANGED <<resourcesDir, out, job, gen, pc, unlinkQ, writeQ, inflight, before,
                 passSrc, faults, regens, burst, emitted, emitVars, inferVars, resVars, mapVars>>

\* the developer saves an existing resource file
ChangeResource ==
  /\ \E st \in DOMAIN resourcesDir.files : \E t \in ResourceTextsOf(st) :
       resourcesDir' = WithFile(resourcesDir, st, t)
  /\ Raise("resources")
  /\ fresh' = [fresh EXCEPT !["resources"] = FALSE]
  /\ startedFresh' = (startedFresh /\ ~(pc = "clean" /\ gen = "resources"))
  /\ UNCHANGED <<enumsDir, out, job, gen, pc, unlinkQ, writeQ, inflight, before,
                 passSrc, faults, regens, burst, emitted, emitVars, inferVars, resVars, mapVars>>

\* the developer saves a model file, or a file outside the three directories
ChangeOther ==
  /\ \E d \in {"models", "elsewhere"} : Raise(d)
  /\ UNCHANGED <<genVars, regens, burst, emitted, emitVars, inferVars, resVars, mapVars>>

\* chokidar raises 'add' or 'unlink' for a path: configureServer registers
\* listeners for 'change' only, so no handler is called and nothing is queued
RaiseUnheard ==
  /\ arrivals < MaxEvents
  /\ arrivals' = arrivals + 1
  /\ arrived' = [arrived EXCEPT !["unheard"] = @ + 1]
  /\ UNCHANGED pending

\* the developer creates a file in app/Enums or app/Http/Resources
AddSource ==
  /\ \/ /\ \E st \in Range(EnumStems) \ DOMAIN enumsDir.files : \E t \in EnumTextsOf(st) :
              enumsDir' = WithFile(enumsDir, st, t)
        /\ fresh' = [p \in Packages |-> FALSE]
        /\ startedFresh' = (startedFresh /\ pc # "clean")
        /\ UNCHANGED resourcesDir
     \/ /\ \E st \in Range(ResourceStems) \ DOMAIN resourcesDir.files :
              \E t \in ResourceTextsOf(st) : resourcesDir' = WithFile(resourcesDir, st, t)
        /\ fresh' = [fresh EXCEPT !["resources"] = FALSE]
        /\ startedFresh' = (startedFresh /\ ~(pc = "clean" /\ gen = "resources"))
        /\ UNCHANGED enumsDir
  /\ RaiseUnheard
  /\ UNCHANGED <<out, job, gen, pc, unlinkQ, writeQ, inflight, before,
                 passSrc, faults, regens, burst, emitted, emitVars, inferVars, resVars, mapVars>>

\* the developer deletes a file of app/Enums or app/Http/Resources
DeleteSource ==
  /\ \/ /\ \E st \in DOMAIN enumsDir.files : enumsDir' = WithoutFile(enumsDir, st)
        /\ fresh' = [p \in Packages |-> FALSE]
        /\ startedFresh' = (startedFresh /\ pc # "clean")
        /\ UNCHANGED resourcesDir
     \/ /\ \E st \in DOMAIN resourcesDir.files : resourcesDir' = WithoutFile(resourcesDir, st)
        /\ fresh' = [fresh EXCEPT !["resources"] = FALSE]
        /\ startedFresh' = (startedFresh /\ ~(pc = "clean" /\ gen = "resources"))
        /\ UNCHANGED enumsDir
  /\ RaiseUnheard
  /\ UNCHANGED <<out, job, gen, pc, unlinkQ, writeQ, inflight, before,
                 passSrc, faults, regens, burst, emitted, emitVars, inferVars, resVars, mapVars>>

\* the handlers are synchronous: the event loop calls the next listener only
\* when the running callback has returned
CanDispatchWhileRunning == TRUE
CanDispatch == job = "idle"

\* the emitter calls the listeners once per event: the later events stay queued
RemainingCoalesced(q) ==
  SelectSeq(Tail(q), LAMBDA e : HandlerOf(e.dir) # HandlerOf(Head(q).dir))
Remaining(q) == Tail(q)

\* server.watcher.on('change', ...): both handlers see the event; the one whose
\* directory prefixes the path regenerates its package, the generator running
\* with the directories and package name the plugin gave the watcher
Dispatch ==
  /\ pending # <<>>
  /\ CanDispatch
  /\ pending' = Remaining(pending)
  /\ LET e == Head(pending)
         p == HandlerOf(e.dir)
     IN IF p = "none"
        THEN UNCHANGED <<genVars, regens, burst>>
        ELSE /\ job' = "watch"
             /\ Enter(p, inflight)
             /\ regens' = [regens EXCEPT ![p] = @ + 1]
             /\ burst' = [burst EXCEPT ![p] =
                            IF e.window = 0 THEN @
                            ELSE IF e.window = @.window
                                 THEN [window |-> e.window, reruns |-> @.reruns + 1]
                                 ELSE [window |-> e.window, reruns |-> 1]]
             /\ UNCHANGED <<enumsDir, resourcesDir, out, fresh, faults>>
  /\ UNCHANGED <<arrivals, arrived, emitted, emitVars, inferVars, resVars, mapVars>>

NextWatch ==
  \/ ChangeEnum
  \/ ChangeResource
  \/ ChangeOther
  \/ AddSource
  \/ DeleteSource
  \/ Dispatch
  \/ Unlink
  \/ Collect
  \/ Write
  \/ WriteThrows
  \/ Return
  \/ Catch

SpecWatch == InitWatch /\ [][NextWatch]_vars

(***************************************************************************)
(* Specification of the enum emitter: parse one enum file, emit two texts  *)
(***************************************************************************)
CaseNames == <<"LOW", "HIGH", "MID">>
CaseStrings == <<"low", "high", "mid">>
Backings == {"string", "int", ""}
\* what the label method answers for a case: no arm, '' or 'Lo'
Arms == {"none", "empty", "text"}

\* enum Level[: backing] { case LOW [= ...]; ... function method() { match ... } }
LevelAst(backing, labels, method) ==
  [parses |-> TRUE, hasEnum |-> TRUE, name |-> "Level", valueType |-> backing, line |-> 1,
   cases |-> [i \in 1..Len(labels) |->
                [name |-> CaseNames[i],
                 value |-> IF backing = "int" THEN NumberNode(Digits[i + 1])
                           ELSE IF backing = "string" THEN StringNode(CaseStrings[i])
                           ELSE NoNode,
                 line |-> i + 1]],
   method |-> method,
   arms |-> LET labelled == SelectSeq([i \in 1..Len(labels) |-> i],
                                      LAMBDA i : labels[i] # "none")
            IN [j \in 1..Len(labelled) |->
                  [cond |-> CaseNames[labelled[j]],
                   body |-> StringNode(IF labels[labelled[j]] = "empty" THEN "" ELSE "Lo")]]]

\* a file without an enum declaration
NoEnumAst ==
  [parses |-> TRUE, hasEnum |-> FALSE, name |-> "", valueType |-> "", line |-> 0,
   cases |-> <<>>, method |-> "", arms |-> <<>>]

EnumInputs ==
  {BrokenAst, NoEnumAst}
  \cup {LevelAst(b, l, m) : b \in Backings,
                            l \in UNION {[1..n -> Arms] : n \in 1..MaxCases},
                            m \in {"label", "getLabel"}}

InitEmit ==
  /\ input \in EnumInputs
  /\ enumDef = Null /\ dtsText = Null /\ jsText = Null
  /\ stage = "read"
  /\ enumsDir = MissingDir /\ resourcesDir = MissingDir
  /\ out = [p \in Packages |-> EmptyOut]
  /\ job = "idle" /\ gen = "none" /\ pc = "idle"
  /\ unlinkQ = <<>> /\ writeQ = <<>>
  /\ inflight = [p \in Packages |-> 0]
  /\ before = [p \in Packages |-> EmptyOut]
  /\ passSrc = NoSources
  /\ fresh = [p \in Packages |-> FALSE]
  /\ startedFresh = FALSE
  /\ faults = 0
  /\ NotWatching
  /\ NotEncoding
  /\ NotInferring

\* collectEnums: parseEnumContent(content, relative path)
ParseEnum ==
  /\ stage = "read"
  /\ enumDef' = parseEnumContent(input, RelPath("Enums", "Level"))
  /\ stage' = IF IsNull(parseEnumContent(input, RelPath("Enums", "Level")))
              THEN "skipped" ELSE "parsed"
  /\ UNCHANGED <<input, dtsText, jsText, genVars, watchVars, inferVars, resVars, mapVars>>

\* generateEnums: the declaration text of the collected enum
EmitDeclaration ==
  /\ stage = "parsed"
  /\ dtsText' = generateSingleEnumTypeScript(enumDef, RelPath("Enums", "Level"))
  /\ stage' = "declared"
  /\ UNCHANGED <<input, enumDef, jsText, genVars, watchVars, inferVars, resVars, mapVars>>

\* generateEnums: the runtime text of the collected enum
EmitRuntime ==
  /\ stage = "declared"
  /\ jsText' = generateSingleEnumRuntime(enumDef)
  /\ stage' = "emitted"
  /\ UNCHANGED <<input, enumDef, dtsText, genVars, watchVars, inferVars, resVars, mapVars>>

NextEmit ==
  \/ ParseEnum
  \/ EmitDeclaration
  \/ EmitRuntime

SpecEmit == InitEmit /\ [][NextEmit]_vars

(***************************************************************************)
(* Specification of field inference: inferTypeFromAstNode applied to one   *)
(* entry of a toArray() literal                                            *)
(***************************************************************************)
\* app/Http/Resources and app/Enums of the project the entry belongs to
KnownResources ==
  [exists |-> TRUE,
   files |-> [st \in {"UserResource", "PostResource", "StatusResource"} |-> ClosedAst]]

KnownEnums ==
  [exists |-> TRUE,
   files |-> [st \in {"Role", "Status"} |-> IF st = "Role" THEN RoleAst ELSE StatusAst]]

\* keys of the entry: boolean names in snake, camel and upper case, a name
\* that only starts with the letters "is", and plain names
FieldKeys == {"is_admin", "hasPosts", "IS_ADMIN", "island", "status", "owner"}

\* 'street' => $this->resource->street
Entry(key, value) == [key |-> key, value |-> value, line |-> 5]

ResourceClasses == {"UserResource", "GhostResource"}

\* value expressions of the entry
ValueExprs ==
  {PropExpr("name"), PropExpr("status"), PropExpr("user_id"), NoExpr}
  \cup {PropExpr(p) : p \in {"id", "uuid", "userId", "is_admin", "has_parent_id", "age",
                             "created_at", "updated_at", "price", "note"}}
  \cup {WhenLoadedExpr(rel) : rel \in {"", "user", "posts"}}
  \cup {StaticCallExpr(r, m, wl) :
          r \in ResourceClasses \cup {"Collection"}, m \in {"collection", "make"},
          wl \in BOOLEAN}
  \cup {StaticCallExpr("UserResource", "from", FALSE)}
  \cup {NewExpr(r, wl) : r \in ResourceClasses, wl \in BOOLEAN}
  \cup {ArrayExpr(<<>>),
        ArrayExpr(<<Entry("street", PropExpr("street")), Entry("city", PropExpr("city"))>>),
        ArrayExpr(<<Entry("state", PropExpr("status"))>>),
        ArrayExpr(<<Entry("owner", WhenLoadedExpr("user"))>>),
        ArrayExpr(<<Entry("owner", WhenLoadedExpr(""))>>)}

\* mapDocTypeToTsForShape(extractDocblockArrayShape(content)): no docblock
\* shape, or `@return array{ is_admin: int, owner: UserData, status: | }`
\* (mapDocTypeToTs maps the type text "|" to the empty text)
DocShape ==
  [k \in {"is_admin", "owner", "status"} |->
     IF k = "is_admin" THEN TsType("number", FALSE)
     ELSE IF k = "owner" THEN TsType("UserData", FALSE) ELSE TsType("", FALSE)]

DocShapes == {NoDocShape, DocShape}

\* the options of the call
ContextOf(p) ==
  [resDir |-> KnownResources, resSupplied |-> p.resSupplied, enumDir |-> KnownEnums,
   resourceClass |-> p.resourceClass, docShape |-> p.docShape]

InitInfer ==
  /\ probe \in [key : FieldKeys, node : ValueExprs, docShape : DocShapes,
                resSupplied : BOOLEAN, resourceClass : {"UserResource", "PostResource"}]
  /\ inferred = Null
  /\ artifact = Null /\ parsed = Null /\ declaration = Null /\ positions = Null
  /\ step = "off"
  /\ enumsDir = MissingDir /\ resourcesDir = MissingDir
  /\ out = [p \in Packages |-> EmptyOut]
  /\ job = "idle" /\ gen = "none" /\ pc = "idle"
  /\ unlinkQ = <<>> /\ writeQ = <<>>
  /\ inflight = [p \in Packages |-> 0]
  /\ before = [p \in Packages |-> EmptyOut]
  /\ passSrc = NoSources
  /\ fresh = [p \in Packages |-> FALSE]
  /\ startedFresh = FALSE
  /\ faults = 0
  /\ NotWatching
  /\ NotEncoding
  /\ NotEmitting

\* parseArrayEntries: const fieldInfo = inferTypeFromAstNode(entry.value, key, options)
Infer ==
  /\ inferred = Null
  /\ inferred' = inferTypeFromAstNode(probe.node, probe.key, ContextOf(probe), NoEnums)
  /\ UNCHANGED <<probe, resVars, genVars, watchVars, emitVars, mapVars>>

NextInfer == Infer

SpecInfer == InitInfer /\ [][NextInfer]_vars

(***************************************************************************)
(* Specification of one resource artifact: the per-file step of            *)
(* generateResources, parseResourceFieldsAst then                          *)
(* generateSingleResourceTypeScript                                        *)
(***************************************************************************)
\* entries of a toArray() literal: properties (plain, identifier, cast to an
\* enum), relations (resolving to StatusResource, empty name), array-index
\* keys, and a key that repeats an earlier one with another value
SampleEntries ==
  {Entry("id", PropExpr("id")),
   Entry("status", PropExpr("status")),
   Entry("role", PropExpr("role")),
   Entry("state", WhenLoadedExpr("status")),
   Entry("owner", WhenLoadedExpr("")),
   Entry("10", PropExpr("name")),
   Entry("2", PropExpr("name")),
   Entry("id", WhenLoadedExpr("user")),
   Entry("address", ArrayExpr(<<Entry("street", PropExpr("street")),
                                Entry("city", PropExpr("city"))>>))}

\* all lists of at most n entries
RECURSIVE EntryLists(_)
EntryLists(n) ==
  IF n = 0 THEN {<<>>}
  ELSE {<<>>} \cup {<<e>> \o l : e \in SampleEntries, l \in EntryLists(n - 1)}

\* class Name { toArray() { return [items]; } }
ClosedResource(className, items) ==
  [parses |-> TRUE, hasClass |-> TRUE, className |-> className, hasToArray |-> TRUE,
   returnsArray |-> TRUE, docShape |-> NoDocShape, items |-> items]

\* texts parseResourceFieldsAst returns null for: not PHP, no class, no
\* toArray method, toArray returning something else than an array literal
OpenResources ==
  {[ClosedResource("PostResource", <<>>) EXCEPT !.parses = FALSE, !.hasClass = FALSE,
                                                !.hasToArray = FALSE, !.returnsArray = FALSE],
   [ClosedResource("PostResource", <<>>) EXCEPT !.hasClass = FALSE, !.hasToArray = FALSE,
                                                !.returnsArray = FALSE],
   [ClosedResource("PostResource", <<>>) EXCEPT !.hasToArray = FALSE, !.returnsArray = FALSE],
   [ClosedResource("PostResource", <<>>) EXCEPT !.returnsArray = FALSE]}

ResourceArtifacts ==
  OpenResources
  \cup {ClosedResource(c, items) :
          c \in {"UserResource", "PostResource"}, items \in EntryLists(MaxFields)}

\* collectedEnums when the file is reached: nothing, or Status, referenced by
\* a resource read earlier in the run
CollectedBefore ==
  {NoEnums, PutEnum(NoEnums, parseEnumContent(StatusAst, NoFile))}

InitResource ==
  /\ artifact \in [ast : ResourceArtifacts, collected : CollectedBefore]
  /\ parsed = Null /\ declaration = Null /\ positions = Null /\ step = "read"
  /\ probe = Null /\ inferred = Null
  /\ enumsDir = MissingDir /\ resourcesDir = MissingDir
  /\ out = [p \in Packages |-> EmptyOut]
  /\ job = "idle" /\ gen = "none" /\ pc = "idle"
  /\ unlinkQ = <<>> /\ writeQ = <<>>
  /\ inflight = [p \in Packages |-> 0]
  /\ before = [p \in Packages |-> EmptyOut]
  /\ passSrc = NoSources
  /\ fresh = [p \in Packages |-> FALSE]
  /\ startedFresh = FALSE
  /\ faults = 0
  /\ NotWatching
  /\ NotEncoding
  /\ NotEmitting

\* generateResources: const fields = parseResourceFieldsAst(content, {...});
\* an exception leaves the loop body through its catch
ParseFields ==
  /\ step = "read"
  /\ \E r \in {parseResourceFieldsAst(
                 artifact.ast,
                 [resDir |-> KnownResources, resSupplied |-> TRUE, enumDir |-> KnownEnums,
                  resourceClass |-> "", docShape |-> artifact.ast.docShape],
                 artifact.collected)} :
       /\ parsed' = r
       /\ step' = IF r.status = "threw" THEN "threw" ELSE "parsed"
  /\ UNCHANGED <<artifact, declaration, positions, inferVars, genVars, watchVars, emitVars,
                 mapVars>>

\* generateResources: console.warn(`Failed to parse resource file: ...`)
WarnFailed ==
  /\ step = "threw"
  /\ step' = "skipped"
  /\ UNCHANGED <<artifact, parsed, declaration, positions, inferVars, genVars, watchVars,
                 emitVars, mapVars>>

\* generateResources: the declaration text of the resource
EmitResource ==
  /\ step = "parsed"
  /\ declaration' = generateSingleResourceTypeScript(
                      artifact.ast.className, parsed.fields, parsed.status = "null",
                      parsed.collected.names,
                      RelPath("app/Http/Resources", artifact.ast.className))
  /\ step' = "emitted"
  /\ UNCHANGED <<artifact, parsed, positions, inferVars, genVars, watchVars, emitVars, mapVars>>

\* generateResources: if (phpFile && !isFallback) the position map of the resource
EmitPositions ==
  /\ step = "emitted"
  /\ parsed.status # "null"
  /\ positions' = generateResourceSourceMap(
                    artifact.ast.className, parsed.fields, DtsFile(artifact.ast.className),
                    RelPath("app/Http/Resources", artifact.ast.className),
                    UsedEnums(parsed.fields, parsed.collected.names) # {})
  /\ step' = "mapped"
  /\ UNCHANGED <<artifact, parsed, declaration, inferVars, genVars, watchVars, emitVars,
                 mapVars>>

NextResource ==
  \/ ParseFields
  \/ WarnFailed
  \/ EmitResource
  \/ EmitPositions

SpecResource == InitResource /\ [][NextResource]_vars

(***************************************************************************)
(* Specification of the source map encoder: generateSourceMap applied to a *)
(* list of mapping tuples; a text is a sequence of characters               *)
(***************************************************************************)
BASE64_CHARS ==
  <<"A", "B", "C", "D", "E", "F", "G", "H", "I", "J", "K", "L", "M", "N", "O", "P",
    "Q", "R", "S", "T", "U", "V", "W", "X", "Y", "Z", "a", "b", "c", "d", "e", "f",
    "g", "h", "i", "j", "k", "l", "m", "n", "o", "p", "q", "r", "s", "t", "u", "v",
    "w", "x", "y", "z", "0", "1", "2", "3", "4", "5", "6", "7", "8", "9", "+", "/">>

\* the do/while loop of encodeVLQ: digit = vlq & 0x1f; vlq >>>= 5; the
\* continuation bit 0x20 is set while something remains
RECURSIVE VLQDigits(_)
VLQDigits(vlq) ==
  IF vlq \div 32 > 0
  THEN <<BASE64_CHARS[(vlq % 32) + 32 + 1]>> \o VLQDigits(vlq \div 32)
  ELSE <<BASE64_CHARS[(vlq % 32) + 1]>>

\* encodeVLQ: value < 0 ? (-value << 1) | 1 : value << 1; the 32-bit shift
\* is exact for the line and column numbers of a text (below 2^30)
encodeVLQ(value) == VLQDigits(IF value < 0 THEN 2 * (-value) + 1 ELSE 2 * value)

\* encodeSegment: four deltas against the previous state
encodeSegment(generatedColumn, sourceIndex, sourceLine, sourceColumn, prevState) ==
  encodeVLQ(generatedColumn - prevState.genCol)
  \o encodeVLQ(sourceIndex - prevState.srcIdx)
  \o encodeVLQ(sourceLine - prevState.srcLine)
  \o encodeVLQ(sourceColumn - prevState.srcCol)

\* the comparator of encodeMappings is negative: a sorts before b
BeforeByLineOnly(a, b) == a.generatedLine < b.generatedLine
Before(a, b) ==
  \/ a.generatedLine < b.generatedLine
  \/ a.generatedLine = b.generatedLine /\ a.generatedColumn < b.generatedColumn

\* [...mappings].sort(comparator): Array.prototype.sort is stable
RECURSIVE SortMappings(_)
SortMappings(ms) ==
  IF ms = <<>> THEN <<>>
  ELSE CHOOSE sorted \in
         {InsertAt(rest, Cardinality({i \in 1..Len(rest) : ~Before(ms[Len(ms)], rest[i])}),
                   ms[Len(ms)]) :
            rest \in {SortMappings(SubSeq(ms, 1, Len(ms) - 1))}} : TRUE

\* the loop of encodeMappings over the sorted tuples: lines is the list of
\* segment lists, state the previous values of the four fields
RECURSIVE EncodeLines(_, _, _)
EncodeLines(sorted, lines, state) ==
  IF sorted = <<>> THEN lines
  ELSE CHOOSE result \in
         {EncodeLines(
            Tail(sorted),
            [padded EXCEPT ![m.generatedLine] =
               Append(@, encodeSegment(m.generatedColumn, 0, m.sourceLine - 1,
                                       m.sourceColumn, st))],
            [genCol |-> m.generatedColumn, srcIdx |-> 0, srcLine |-> m.sourceLine - 1,
             srcCol |-> m.sourceColumn]) :
            m \in {Head(sorted)},
            padded \in {lines \o [i \in 1..(Head(sorted).generatedLine - Len(lines)) |-> <<>>]},
            st \in {IF Len(lines) < Head(sorted).generatedLine
                    THEN [state EXCEPT !.genCol = 0] ELSE state}} : TRUE

\* Array.prototype.join
RECURSIVE Join(_, _)
Join(parts, sep) ==
  IF parts = <<>> THEN <<>>
  ELSE IF Len(parts) = 1 THEN parts[1]
  ELSE parts[1] \o <<sep>> \o Join(Tail(parts), sep)

\* encodeMappings
encodeMappings(ms) ==
  IF Len(ms) = 0 THEN <<>>
  ELSE CHOOSE text \in
         {Join([i \in 1..Len(lines) |-> Join(lines[i], ",")], ";") :
            lines \in {EncodeLines(SortMappings(ms), <<>>,
                                   [genCol |-> 0, srcIdx |-> 0, srcLine |-> 0, srcCol |-> 0])}} :
         TRUE

\* generateSourceMap: the object handed to JSON.stringify
generateSourceMap(file, sources, ms) ==
  [version |-> 3, file |-> file, sourceRoot |-> "", sources |-> sources, names |-> <<>>,
   mappings |-> encodeMappings(ms)]

\* mapping tuples: lines that leave a gap, columns and source lines whose
\* deltas need one or two digits and are negative in some order
SourceMappings ==
  [generatedLine : {1, 2, 3}, generatedColumn : {0, 20}, sourceLine : {1, 20},
   sourceColumn : {0, 2}]

\* all lists of at most n tuples
RECURSIVE MappingLists(_)
MappingLists(n) ==
  IF n = 0 THEN {<<>>}
  ELSE {<<>>} \cup {<<m>> \o l : m \in SourceMappings, l \in MappingLists(n - 1)}

InitMap ==
  /\ mappings \in MappingLists(MaxMappings)
  /\ encoded = Null
  /\ NotInferring
  /\ enumsDir = MissingDir /\ resourcesDir = MissingDir
  /\ out = [p \in Packages |-> EmptyOut]
  /\ job = "idle" /\ gen = "none" /\ pc = "idle"
  /\ unlinkQ = <<>> /\ writeQ = <<>>
  /\ inflight = [p \in Packages |-> 0]
  /\ before = [p \in Packages |-> EmptyOut]
  /\ passSrc = NoSources
  /\ fresh = [p \in Packages |-> FALSE]
  /\ startedFresh = FALSE
  /\ faults = 0
  /\ pending = <<>> /\ arrivals = 0
  /\ arrived = [p \in Packages \cup {"unheard"} |-> 0]
  /\ regens = [p \in Packages |-> 0]
  /\ burst = [p \in Packages |-> [window |-> 0, reruns |-> 0]]
  /\ emitted = [p \in Packages |-> 0]
  /\ NotEmitting

\* generateSourceMap({ file, sources, mappings })
EncodeMap ==
  /\ encoded = Null
  /\ encoded' = generateSourceMap("Level.d.ts", <<"Level.php">>, mappings)
  /\ UNCHANGED <<mappings, inferVars, resVars, genVars, watchVars, emitVars>>

NextMap == EncodeMap

SpecMap == InitMap /\ [][NextMap]_vars

(***************************************************************************)
(* Properties of the generation passes (Spec)                              *)
(***************************************************************************)
\* names the source artifacts read by a pass of package p give rise to
SourceNames(p, src) ==
  IF p = "enums"
  THEN {src.enums.files[st].name :
          st \in {x \in DOMAIN src.enums.files : src.enums.files[x].parses}}
  ELSE DOMAIN src.resources.files

IsGenerated(f) == EndsWithDts(f) \/ EndsWithJs(f)

\* C1: once a regeneration has completed, the output directory holds
\* <name>.d.ts and <name>.js only for names of source artifacts that exist at
\* that regeneration and for the index barrels; the cleanup never removes
\* package.json.
C1_NoStaleNames ==
  gen \in Packages =>
    /\ pc = "done" =>
         \A f \in DOMAIN out[gen] :
           IsGenerated(f) => f[1] \in SourceNames(gen, passSrc) \cup {"index"}
    /\ PackageJson \in DOMAIN before[gen] => PackageJson \in DOMAIN out[gen]

\* a completed pass has removed the files of a deleted enum and kept the manifest
C1_Witness ==
  /\ pc = "done" /\ gen = "enums"
  /\ DtsFile("Status") \in DOMAIN before["enums"]
  /\ JsFile("Status") \in DOMAIN before["enums"]
  /\ DtsFile("Status") \notin DOMAIN out["enums"]
  /\ JsFile("Status") \notin DOMAIN out["enums"]
  /\ DtsFile("Role") \in DOMAIN out["enums"]
  /\ PackageJson \in DOMAIN before["enums"]

\* C2: when a file write fails during a pass, no file the output directory
\* held before the pass started has been deleted or replaced.
C2_FailedPassLeavesOutput ==
  (gen \in Packages /\ pc = "threw") =>
    \A f \in DOMAIN before[gen] : f \in DOMAIN out[gen] /\ out[gen][f] = before[gen][f]

\* C3: a reader listing the output directory during a regeneration never sees
\* a generated file deleted whose replacement has not been written yet.
C3_NoGapDuringPass ==
  ~(/\ gen \in Packages
    /\ \E f \in DOMAIN before[gen] :
         /\ f \notin DOMAIN out[gen]
         /\ \/ pc = "clean"
            \/ pc = "write" /\ \E i \in 1..Len(writeQ) : writeQ[i].file = f)

\* C6: every resource artifact in the resources directory yields exactly one
\* declaration file in a completed pass, whatever the other artifacts hold.
C6_OneDeclarationPerResource ==
  (pc = "done" /\ gen = "resources" /\ passSrc.resources.exists) =>
    \A st \in DOMAIN passSrc.resources.files : DtsFile(st) \in DOMAIN out["resources"]

\* the output directory after a regeneration over a directory of zero artifacts
IsEmptyPackage(p, dirOut) ==
  /\ \A i \in 1..3 :
       LET w == BarrelWrites(p, <<>>)[i]
       IN w.file \in DOMAIN dirOut /\ dirOut[w.file] = w.content
  /\ \A f \in DOMAIN dirOut : IsGenerated(f) => f[1] = "index"

\* C7: regenerating a package whose source directory does not exist leaves
\* index.d.ts, index.js and package.json of an empty package and no per-name file.
C7_MissingDirIsEmptyPackage ==
  (/\ pc = "done" /\ gen \in Packages
   /\ ~(IF gen = "enums" THEN passSrc.enums.exists ELSE passSrc.resources.exists))
  => IsEmptyPackage(gen, out[gen])

\* C8: a pass over sources unchanged since the last completed pass of the
\* package leaves every file of the output directory as it was, and the same
\* set of files.
C8_Idempotent ==
  (gen \in Packages /\ pc = "done" /\ startedFresh) => out[gen] = before[gen]

\* a second resources pass over unchanged sources has completed on an output
\* directory holding declaration, position-map, runtime, barrel and manifest files
C8_Witness ==
  /\ pc = "done" /\ gen = "resources" /\ startedFresh
  /\ DtsFile("UserResource") \in DOMAIN out["resources"]
  /\ MapFile("UserResource") \in DOMAIN out["resources"]
  /\ JsFile("UserResource") \in DOMAIN out["resources"]
  /\ IndexDts \in DOMAIN out["resources"]
  /\ PackageJson \in DOMAIN out["resources"]

(***************************************************************************)
(* Properties of the watchers (SpecWatch)                                  *)
(***************************************************************************)
\* C4: for each package at most one regeneration is in progress at any time;
\* a change event arriving while a regeneration of its package runs starts
\* no second one before the first has finished.
C4_OneInFlight == \A p \in Packages : inflight[p] <= 1

\* a change event for the enums waits while an enums regeneration is running
C4_Witness ==
  /\ job = "watch" /\ gen = "enums" /\ inflight["enums"] = 1
  /\ pc \in {"clean", "write"}
  /\ \E i \in 1..Len(pending) : pending[i].dir = "enums"

\* change events of package p waiting in the queue
PendingFor(p) == Len(SelectSeq(pending, LAMBDA e : HandlerOf(e.dir) = p))

\* C5: the change events of a package that arrive during one regeneration of
\* it cause at most one further regeneration.
C5_BurstCoalesced == \A p \in Packages : burst[p].reruns <= 1

\* C5, as the watchers behave: every change event of a package starts its own
\* regeneration, so at any time the regenerations started and the events
\* still queued add up to the events raised.
C5_OneRegenerationPerEvent ==
  \A p \in Packages : regens[p] + PendingFor(p) = arrived[p]

\* two change events that arrived during the same regeneration have each
\* started a regeneration
C5_Witness == \E p \in Packages : burst[p].reruns = 2 /\ regens[p] = 3

(***************************************************************************)
(* Properties of the enum emitter (SpecEmit)                               *)
(***************************************************************************)
\* some case of the parsed enum has a label attached, whatever its text
SomeCaseLabelled == \E i \in 1..Len(enumDef.cases) : enumDef.cases[i].label.set

\* C9: the declaration is an ambient typed constant exactly when some case
\* has a label attached (for any label text) and a conventional enum exactly
\* when none has; the runtime text has the { value, label } shape under the
\* same condition.
C9_FormFollowsLabels ==
  stage = "emitted" =>
    /\ dtsText.node.form = "declare const" <=> SomeCaseLabelled
    /\ dtsText.node.form = "enum" <=> ~SomeCaseLabelled
    /\ jsText.shape = "object" <=> SomeCaseLabelled

\* the literal kind the backing type of the enum calls for
LiteralKind(def) == IF def.backing = "int" THEN "numeric" ELSE "string"

\* C10: every case value of an int-backed enum is emitted as a numeric
\* literal and every case value of a string-backed or unit enum as a quoted
\* string literal, in the declaration and in the runtime text, with or
\* without labelled cases.
C10_LiteralKindKept ==
  stage = "emitted" =>
    \A i \in 1..Len(enumDef.cases) :
      /\ dtsText.node.members[i].value.lit = LiteralKind(enumDef)
      /\ jsText.members[i].value.lit = LiteralKind(enumDef)

(***************************************************************************)
(* Properties of field inference (SpecInfer)                               *)
(***************************************************************************)
Boolean == TsType("boolean", FALSE)

\* keys of the model that start with is_/has_ in any case, or with is/has
\* followed by an upper-case letter
NamedAsBoolean(key) == key \in {"is_admin", "hasPosts", "IS_ADMIN"}

HasDocEntry(p) == p.key \in DOMAIN p.docShape

\* C11 as stated: every field whose key is a boolean name is inferred as
\* `boolean`, whatever its value expression is.
C11_BooleanByName ==
  (inferred # Null /\ NamedAsBoolean(probe.key))
    => (~inferred.threw /\ inferred.type = Boolean)

\* C11, amended: every field whose key is a boolean name and has no entry in
\* the docblock shape is inferred as `boolean`, whatever its value expression
\* is (property access, resource call, whenLoaded call, nested literal, other).
C11_BooleanByNameWithoutDocEntry ==
  (inferred # Null /\ NamedAsBoolean(probe.key) /\ ~HasDocEntry(probe))
    => (~inferred.threw /\ inferred.type = Boolean)

\* a camel-case boolean key whose value is whenLoaded('') is inferred boolean
C11_Witness ==
  /\ inferred # Null
  /\ probe.key = "hasPosts" /\ probe.node = WhenLoadedExpr("") /\ probe.resSupplied
  /\ inferred.type = Boolean

\* the value is a whenLoaded call, alone or as the argument of
\* R::collection(...), R::make(...) or new R(...)
IsConditionalRelation(node) ==
  \/ node.kind = "call" /\ node.callee = "whenLoaded"
  \/ /\ node.kind = "call" /\ node.callee = "static"
     /\ node.method \in {"collection", "make"} /\ node.whenLoadedArg
  \/ node.kind = "new" /\ node.whenLoadedArg

\* C12: every field whose value expression is a whenLoaded call, alone or
\* wrapped in a resource call, is inferred with optional = true, for every
\* key and every inference context.
C12_ConditionalRelationIsOptional ==
  (inferred # Null /\ IsConditionalRelation(probe.node))
    => (~inferred.threw /\ inferred.optional)

\* C13 as stated: a key with an entry in the docblock shape is inferred with
\* the docblock's type and optional = false, for every value expression.
C13_DocTypeNeverOptional ==
  (inferred # Null /\ HasDocEntry(probe))
    => /\ ~inferred.threw
       /\ inferred.type = probe.docShape[probe.key]
       /\ ~inferred.optional

\* C13, amended: a key with an entry of non-empty type in the docblock shape
\* is inferred with the docblock's type verbatim, for every value expression;
\* no later stage changes the type, and optional is true exactly when the
\* value expression contains a whenLoaded call.
C13_DocTypeVerbatim ==
  (inferred # Null /\ HasDocEntry(probe) /\ probe.docShape[probe.key].name # "")
    => /\ ~inferred.threw
       /\ inferred.type = probe.docShape[probe.key]
       /\ inferred.optional = containsWhenLoaded(probe.node)

\* a documented key whose value is a resource collection of a loaded relation
C13_Witness ==
  /\ inferred # Null
  /\ probe.key = "owner" /\ probe.docShape = DocShape
  /\ probe.node = StaticCallExpr("UserResource", "collection", TRUE)
  /\ inferred.type = TsType("UserData", FALSE) /\ inferred.optional

\* the probe wraps a resource class (not the generic Collection class, which
\* is no resource) under a key that no earlier stage decides
IsResourceWrapping(p) ==
  /\ ~HasDocEntry(p) /\ ~NamedAsBoolean(p.key)
  /\ p.node.resource \in ResourceClasses
  /\ \/ p.node.kind = "new"
     \/ p.node.kind = "call" /\ p.node.callee = "static"
        /\ p.node.method \in {"collection", "make"}

\* R names an artifact of the resources directory, or no directory is supplied
Resolves(p) ==
  ~p.resSupplied \/ p.node.resource \in DOMAIN KnownResources.files

IsMakeOfRelation(p) ==
  /\ IsResourceWrapping(p) /\ Resolves(p)
  /\ p.node.kind = "call" /\ p.node.method = "make" /\ p.node.whenLoadedArg

FieldKeysOf(fields) == {fields[i].key : i \in 1..Len(fields)}

FieldOf(fields, key) == fields[CHOOSE i \in 1..Len(fields) : fields[i].key = key]

\* C16: inference never raises: whatever the value expressions of the
\* literal are, parseResourceFieldsAst returns, with a descriptor for every
\* key of the literal, and no exception reaches generateResources.
C16_InferenceNeverRaises ==
  (step # "read" /\ artifact.ast.returnsArray)
    => /\ parsed.status = "ok"
       /\ FieldKeysOf(parsed.fields) = FieldKeysOf(artifact.ast.items)

\* the entry is $this->resource->status or ->role of UserResource: the User
\* model casts both properties to an enum of app/Enums
IsEnumCastEntry(it) ==
  /\ artifact.ast.className = "UserResource"
  /\ it.value.kind = "propertylookup" /\ it.value.prop \in {"status", "role"}

EnumCastOf(it) == IF it.value.prop = "status" THEN "Status" ELSE "Role"

RECURSIVE UsesEnum(_, _)
UsesEnum(type, enumName) ==
  \/ type.name = enumName
  \/ \E i \in 1..Len(type.members) : UsesEnum(type.members[i].type, enumName)

\* C18: the import of a resource declaration names exactly the referenced
\* enums that a field of the resource uses as a type, in lexicographic
\* order: no enum used only by other resources, no enum whose name is only
\* a part of another type name; without such an enum there is no import.
C18_ImportsExactlyUsedEnums ==
  step = "emitted" =>
    declaration.imports =
      SelectSeq(<<"Role", "Status">>,
                LAMBDA e : /\ e \in Range(parsed.collected.names)
                           /\ \E i \in 1..Len(parsed.fields) :
                                UsesEnum(parsed.fields[i].type, e))

\* the text does not parse, has no class, the class has no toArray method,
\* or toArray does not return an array literal
IsOpen(ast) == ast \in OpenResources

\* C19: a resource is marked fallback, and its declaration is the alias
\* `export type Name = Record<string, any>` without members, exactly when its
\* text does not parse, has no class, has no toArray method or toArray does
\* not return an array literal; a resource whose toArray returns an array
\* literal (an empty one included) gets a structural type.
C19_FallbackExactly ==
  /\ step # "read" => ((parsed.status = "null") = IsOpen(artifact.ast))
  /\ step = "emitted" =>
       IF IsOpen(artifact.ast)
       THEN /\ declaration.node.form = "type alias"
            /\ declaration.node.type = TsType("Record<string, any>", FALSE)
            /\ declaration.node.members = <<>>
       ELSE /\ declaration.node.form = "type literal"
            /\ Len(declaration.node.members) = Len(parsed.fields)

\* a class whose toArray() returns something else than an array literal
C19_Witness ==
  /\ step = "emitted"
  /\ artifact.ast.hasToArray /\ ~artifact.ast.returnsArray
  /\ declaration.node.form = "type alias"

\* the keys of the literal in the order of their first appearance
RECURSIVE KeysInSourceOrder(_)
KeysInSourceOrder(items) ==
  IF items = <<>> THEN <<>>
  ELSE CHOOSE keys \in
         {IF items[Len(items)].key \in Range(rest)
          THEN rest ELSE Append(rest, items[Len(items)].key) :
            rest \in {KeysInSourceOrder(SubSeq(items, 1, Len(items) - 1))}} : TRUE

\* C20: the members of an emitted resource type are the keys of the source
\* literal in the order of their first appearance, one member per key, each
\* optional field marked, for every list of keys: keys made of digits and
\* repeated keys included.
C20_MembersInSourceOrder ==
  (step = "emitted" /\ ~IsOpen(artifact.ast)) =>
    /\ [i \in 1..Len(declaration.node.members) |-> declaration.node.members[i].name]
         = KeysInSourceOrder(artifact.ast.items)
    /\ \A i \in 1..Len(declaration.node.members) :
         declaration.node.members[i].optional = parsed.fields[i].optional

(***************************************************************************)
(* Properties of the source map encoder (SpecMap)                          *)
(***************************************************************************)
\* the parts of a text between the occurrences of a separator
RECURSIVE Split(_, _)
Split(text, sep) ==
  IF \A i \in 1..Len(text) : text[i] # sep THEN <<text>>
  ELSE CHOOSE parts \in
         {<<SubSeq(text, 1, k - 1)>> \o Split(SubSeq(text, k + 1, Len(text)), sep) :
            k \in {CHOOSE i \in 1..Len(text) :
                     text[i] = sep /\ \A j \in 1..(i - 1) : text[j] # sep}} : TRUE

\* the value of a base64 digit
DigitValue(c) == (CHOOSE i \in 1..Len(BASE64_CHARS) : BASE64_CHARS[i] = c) - 1

\* version 3: the numbers of a segment; a digit of 32 or more continues the
\* number, the lowest bit of a number is its sign
RECURSIVE DecodeNumbers(_, _, _)
DecodeNumbers(chars, acc, weight) ==
  IF chars = <<>> THEN <<>>
  ELSE CHOOSE numbers \in
         {IF d >= 32 THEN DecodeNumbers(Tail(chars), v, weight * 32)
          ELSE <<IF v % 2 = 1 THEN -(v \div 2) ELSE v \div 2>>
               \o DecodeNumbers(Tail(chars), 0, 1) :
            d \in {DigitValue(Head(chars))},
            v \in {acc + (DigitValue(Head(chars)) % 32) * weight}} : TRUE

\* version 3: the tuples of the segments of one line; the column delta
\* starts from 0, the source deltas continue from the previous segment
RECURSIVE DecodeSegments(_, _, _)
DecodeSegments(segments, line, prev) ==
  IF segments = <<>> THEN <<>>
  ELSE CHOOSE tuples \in
         {<<t>> \o DecodeSegments(Tail(segments), line, t) :
            t \in {[generatedLine |-> line,
                    generatedColumn |-> prev.generatedColumn + n[1],
                    sourceIndex |-> prev.sourceIndex + n[2],
                    sourceLine |-> prev.sourceLine + n[3],
                    sourceColumn |-> prev.sourceColumn + n[4]] :
                     n \in {DecodeNumbers(Head(segments), 0, 1)}}} : TRUE

\* version 3: the tuples of the slots from slot `line` on
RECURSIVE DecodeSlots(_, _, _)
DecodeSlots(slots, line, prev) ==
  IF line > Len(slots) THEN <<>>
  ELSE CHOOSE tuples \in
         {here \o DecodeSlots(slots, line + 1,
                              IF here = <<>> THEN prev ELSE here[Len(here)]) :
            here \in {IF slots[line] = <<>> THEN <<>>
                      ELSE DecodeSegments(Split(slots[line], ","), line,
                                          [prev EXCEPT !.generatedColumn = 0])}} : TRUE

Slots(text) == IF text = <<>> THEN <<>> ELSE Split(text, ";")

Decoded(text) ==
  DecodeSlots(Slots(text), 1,
              [generatedLine |-> 0, generatedColumn |-> 0, sourceIndex |-> 0,
               sourceLine |-> 0, sourceColumn |-> 0])

\* what a consumer of the map is to read for an input tuple
Expected(m) ==
  [generatedLine |-> m.generatedLine, generatedColumn |-> m.generatedColumn,
   sourceIndex |-> 0, sourceLine |-> m.sourceLine - 1, sourceColumn |-> m.sourceColumn]

Occurrences(q, x) == Cardinality({i \in 1..Len(q) : q[i] = x})

\* C21: decoding the `mappings` string by the version-3 rules yields exactly
\* the input tuples, sorted by (generatedLine, generatedColumn), with source
\* index 0 and 0-based source lines, whatever the order of the input; the
\* string has as many slots as the largest generatedLine.
C21_MappingsRoundTrip ==
  encoded # Null =>
    LET decoded == Decoded(encoded.mappings)
    IN /\ Len(decoded) = Len(mappings)
       /\ \A i \in 1..Len(mappings) :
            Occurrences(decoded, Expected(mappings[i]))
              = Occurrences(mappings, mappings[i])
       /\ \A i \in 1..(Len(decoded) - 1) :
            \/ decoded[i].generatedLine < decoded[i + 1].generatedLine
            \/ /\ decoded[i].generatedLine = decoded[i + 1].generatedLine
               /\ decoded[i].generatedColumn <= decoded[i + 1].generatedColumn
       /\ \A i \in 1..Len(mappings) :
            /\ Len(Slots(encoded.mappings)) >= mappings[i].generatedLine
            /\ \E j \in 1..Len(mappings) :
                 Len(Slots(encoded.mappings)) = mappings[j].generatedLine

\* two tuples given in descending order, with an empty line between them
\* and a source line that goes backwards
C21_Witness ==
  /\ encoded # Null
  /\ mappings = <<[generatedLine |-> 3, generatedColumn |-> 20, sourceLine |-> 1,
                   sourceColumn |-> 0],
                  [generatedLine |-> 1, generatedColumn |-> 20, sourceLine |-> 20,
                   sourceColumn |-> 2]>>
  /\ Slots(encoded.mappings)[2] = <<>>
  /\ Len(Slots(encoded.mappings)) = 3

(***************************************************************************)
(* Properties of the enum parser (SpecEmit): label methods                  *)
(***************************************************************************)
\* the arm `self::key => <scalar>` of the label method of the input, if any
LabelArmsOf(key) ==
  {j \in 1..Len(input.arms) : input.arms[j].cond = key /\ HasStringValue(input.arms[j].body)}

\* C22: parseEnumContent attaches labels from a match on self found in a
\* method named `label` and equally in a method named `getLabel`: every arm
\* `self::CASE => <scalar>` sets the label of the case with that key, and a
\* case with no arm has no label.
C22_LabelsFromEitherMethod ==
  (stage # "read" /\ ~IsNull(enumDef) /\ input.method \in {"label", "getLabel"}) =>
    \A i \in 1..Len(enumDef.cases) :
      LET arms == LabelArmsOf(enumDef.cases[i].key)
      IN /\ (arms = {}) => ~enumDef.cases[i].label.set
         /\ \A j \in arms :
              /\ enumDef.cases[i].label.set
              /\ enumDef.cases[i].label.text = getStringValue(input.arms[j].body)

(***************************************************************************)
(* Properties of the dev server (SpecWatch): what the watchers react to     *)
(***************************************************************************)
\* no event is queued and no callback runs
Quiescent == pending = <<>> /\ job = "idle"

\* C23: while the dev server is watching, every change to a source the
\* resources package depends on (a resource, a model, or an enum a model cast
\* refers to) is followed by a regeneration of the resources package: once
\* the change events are handled, no write has failed and no file was added
\* or deleted, the resources output is what a pass over the present resource
\* and enum directories writes.
C23_DependencyChangeRegenerates ==
  (Quiescent /\ faults = 0 /\ arrived["unheard"] = 0) =>
    out["resources"] = ApplyWrites(EmptyOut, ResourceWrites(resourcesDir, enumsDir))

\* the source directory of a package, its file stems, and the files a pass
\* over the present sources writes
DirOf(p) == IF p = "enums" THEN enumsDir ELSE resourcesDir
StemsOf(p) == IF p = "enums" THEN Range(EnumStems) ELSE Range(ResourceStems)
WritesOf(p) ==
  IF p = "enums" THEN EnumWrites(enumsDir) ELSE ResourceWrites(resourcesDir, enumsDir)

\* C24: while the dev server is watching, adding or deleting a source artifact
\* in a watched directory is followed by a regeneration of its package: once
\* the events are handled and no write has failed, the output directory holds
\* the declaration of every artifact the present sources yield and none for
\* the name of an artifact that is no longer there.
C24_AddAndDeleteRegenerate ==
  (Quiescent /\ faults = 0) =>
    \A p \in Packages : \A st \in StemsOf(p) :
      /\ st \notin DOMAIN DirOf(p).files => DtsFile(st) \notin DOMAIN out[p]
      /\ (\E i \in 1..Len(WritesOf(p)) : WritesOf(p)[i].file = DtsFile(st))
           => DtsFile(st) \in DOMAIN out[p]

(***************************************************************************)
(* Properties of the plugin hooks (Spec): the two packages                  *)
(***************************************************************************)
\* a step of a generator leaves the other package's output directory alone
OtherOutputUntouched ==
  gen \in Packages => \A q \in Packages \ {gen} : out'[q] = out[q]

\* the hook whose enum generation has thrown goes on with the resources
HookGoesOnAfterEnumFailure ==
  (job = "hook" /\ gen = "enums" /\ pc = "threw") =>
    (job' = "hook" /\ gen' = "resources" /\ pc' = "clean")

\* C25: the enum package and the resource package are generated
\* independently: a fatal failure while generating the enums in a hook does
\* not prevent the resources from being generated in the same hook
\* invocation, and generating one package never creates, deletes or changes a
\* file in the other package's output directory.
C25_PackagesIndependent ==
  [][HookGoesOnAfterEnumFailure /\ OtherOutputUntouched]_vars

\* the second half of C25 alone: the generators write disjoint directories
C25_OutputsDisjoint == [][OtherOutputUntouched]_vars

(***************************************************************************)
(* Properties of the field inference (SpecInfer): property accesses         *)
(***************************************************************************)
\* the probe is `key => $this->resource->p` with no docblock type for the key
\* and a key that is not a boolean name, and it has been inferred
IsPlainProperty ==
  /\ inferred # Null
  /\ probe.node.kind = "propertylookup"
  /\ ~HasDocType(probe.docShape, probe.key)
  /\ ~IsBooleanName(probe.key)

\* the model of the probe's resource class casts the property
CastEntryOf(prop) == CastOf(prop, ContextOf(probe))

PlainString == TsType("string", FALSE)

\* C26: for a direct property access the stages apply in the order boolean
\* name, identifier, cast table, timestamp, string fallback and the first
\* match wins: an is_/has_ name is boolean whatever its cast, an identifier
\* name is string even when the model casts it, a cast entry takes precedence
\* over the timestamp heuristic, and a property matching no stage is string.
C26_PropertyStagesInOrder ==
  IsPlainProperty =>
    LET p == probe.node.prop
    IN /\ ~inferred.threw /\ ~inferred.optional
       /\ IsBooleanName(p) => inferred.type = Boolean
       /\ (IsIdentifierName(p) /\ ~IsBooleanName(p)) => inferred.type = PlainString
       /\ (CastEntryOf(p) # "" /\ ~IsBooleanName(p) /\ ~IsIdentifierName(p)) =>
            inferred.type = CastType(CastEntryOf(p), ContextOf(probe), NoEnums).type
       /\ (CastEntryOf(p) = "" /\ ~IsBooleanName(p) /\ ~IsIdentifierName(p)) =>
            inferred.type = PlainString

\* an identifier that the model casts to integer has been inferred as string
C26_Witness ==
  /\ IsPlainProperty
  /\ probe.node.prop = "user_id" /\ CastEntryOf("user_id") = "integer"
  /\ inferred.type = PlainString

(***************************************************************************)
(* Properties of the plugin hooks (Spec): position maps                     *)
(***************************************************************************)
\* the writes of the pass that has just completed, over the directories it read
PassWrites ==
  IF gen = "enums" THEN EnumWrites(passSrc.enums)
  ELSE ResourceWrites(passSrc.resources, passSrc.enums)

WrittenByPass(f) == \E i \in 1..Len(PassWrites) : PassWrites[i].file = f

\* C27: after a regeneration of a package has completed, every position map
\* <name>.d.ts.map in the output directory belongs to a declaration
\* <name>.d.ts written by that regeneration: no map remains for an artifact
\* that was deleted or that is now emitted as a fallback.
C27_MapsBelongToDeclarations ==
  (pc = "done" /\ gen \in Packages) =>
    \A n \in Range(OutNames) :
      MapFile(n) \in DOMAIN out[gen] =>
        /\ WrittenByPass(DtsFile(n))
        /\ WrittenByPass(MapFile(n))

(***************************************************************************)
(* Properties of the dev server (SpecWatch): the handlers                   *)
(***************************************************************************)
\* the step that emits 'change' for a generated barrel starts no regeneration
\* and ends the callback
EmitEndsHandler ==
  (emitted' # emitted) => (regens' = regens /\ job' = "idle" /\ gen' = "none")

\* a regeneration starts only when the event loop hands the oldest queued
\* event to the watchers, and then exactly one starts: that of its package
OneRegenerationPerDispatch ==
  (regens' # regens) =>
    /\ pending # <<>> /\ pending' = Tail(pending)
    /\ regens' = [regens EXCEPT ![HandlerOf(Head(pending).dir)] = @ + 1]

\* C28: handling one change event of a source artifact performs exactly one
\* regeneration of that artifact's package and then terminates: the `change`
\* event the handler re-emits for the generated barrel starts no further
\* regeneration in either watcher (the output directories lie outside the
\* watched source directories).
C28_ReemitStartsNothing ==
  [][EmitEndsHandler /\ OneRegenerationPerDispatch]_vars

\* both watchers have regenerated once and emitted once, and nothing runs
C28_Witness ==
  /\ Quiescent
  /\ \A p \in Packages : regens[p] = 1 /\ emitted[p] = 1 /\ arrived[p] = 1

\* C29: if a regeneration triggered by a change event throws, the handler
\* catches the error, emits no change notification for that event, and stays
\* registered: once the events are handled every change event of a package,
\* those after the failure included, has started a regeneration of it, and
\* there is one notification per regeneration that completed.
C29_FailureIsContained ==
  Quiescent =>
    /\ \A p \in Packages : regens[p] = arrived[p]
    /\ (regens["enums"] - emitted["enums"])
         + (regens["resources"] - emitted["resources"]) = faults

\* a regeneration of a package threw, and a later change event of the package
\* was handled by a regeneration that completed
C29_Witness ==
  /\ Quiescent /\ faults = 1
  /\ \E p \in Packages : regens[p] = 2 /\ emitted[p] = 1 /\ fresh[p]

(***************************************************************************)
(* Properties of one resource artifact (SpecResource): position maps        *)
(***************************************************************************)
\* C30: for every resource that is not a fallback, each mapping produced by
\* generateResourceSourceMap has as generated line the line of the text of
\* generateSingleResourceTypeScript on which that field's member begins, with
\* and without an enum import, and also for a field that follows a field
\* whose inline object type is printed over several lines.
C30_MappedLinesAreMemberLines ==
  step = "mapped" =>
    \A i \in 1..Len(positions.mappings) :
      positions.mappings[i].generatedLine = MemberLine(declaration, i)

\* a member that spans several lines, as printed
IsMultiLine(member) == PrintedLines(member.type) > 1

\* C30 for resources none of whose members spans several lines
C30_SingleLineMembers ==
  (step = "mapped" /\ \A j \in 1..Len(declaration.node.members) :
                        ~IsMultiLine(declaration.node.members[j])) =>
    \A i \in 1..Len(positions.mappings) :
      positions.mappings[i].generatedLine = MemberLine(declaration, i)

====
